---- MODULE Spec2Model ----
(***************************************************************************)
(* Model of app/core/agent_memory.py: the AgentMemoryManager of the EduAI  *)
(* backend.  The durable state is the SQLite database agent_memory.db      *)
(* (tables memory_entries and knowledge_graph); the volatile state is the  *)
(* networkx DiGraph held by the manager and the frames of the callers that *)
(* are inside one of its methods.                                          *)
(*                                                                         *)
(* A public method is entered by the action that carries its name; the     *)
(* statements it then executes against shared state are queued in the      *)
(* caller's frame and executed one per step (_store_entry, _add_to_graph,  *)
(* add_edge_nodes, add_edge_adj), so that a call is the sequence of steps  *)
(* from its entry to the step that empties the queue or raises.            *)
(***************************************************************************)
EXTENDS Integers, Sequences, FiniteSets, TLC

(***************************************************************************)
(* Bounds of the model                                                     *)
(***************************************************************************)
MaxEntries == 2      \* rows ever inserted into memory_entries
MaxEdges == 3        \* rows ever inserted into knowledge_graph
MaxClock == 5        \* last clock reading
MaxHistory == 6      \* rows of memory_entries written before the process started
MaxPathEdges == 6    \* rows of knowledge_graph that learning paths may bring it to

(***************************************************************************)
(* Time.  datetime.now() is read from the wall clock; one day is           *)
(* TicksPerDay ticks.  isoformat() writes the whole part in fixed-width    *)
(* fields and appends the fraction only when it is not zero, as            *)
(* datetime.isoformat does with microseconds; SQLite compares the          *)
(* resulting TEXT values left to right, a proper prefix sorting first.     *)
(***************************************************************************)
TicksPerDay == 2
StartClock == 2

isoformat(t) ==
    IF t % TicksPerDay = 0 THEN << t \div TicksPerDay >>
                           ELSE << t \div TicksPerDay, t % TicksPerDay >>

RECURSIVE TextLess(_, _)
TextLess(a, b) ==
    IF b = << >> THEN FALSE
    ELSE IF a = << >> THEN TRUE
    ELSE IF Head(a) # Head(b) THEN Head(a) < Head(b)
    ELSE TextLess(Tail(a), Tail(b))

timedelta(days) == days * TicksPerDay

(***************************************************************************)
(* Strings                                                                 *)
(***************************************************************************)
\* F applied to the value of v
Bind(v, F(_)) == CHOOSE r \in {F(x) : x \in {v}} : TRUE

\* sub in s
Contains(s, sub) ==
    \E x \in {s}, y \in {sub} :
       \E i \in 1..(Len(x) - Len(y) + 1) : SubSeq(x, i, i + Len(y) - 1) = y

CharAt(s, i) == SubSeq(s, i, i)

\* the position of the first ":" of s
FirstColon(s) ==
    CHOOSE i \in 1..Len(s) :
       /\ CharAt(s, i) = ":"
       /\ \A j \in 1..(i - 1) : CharAt(s, j) # ":"

\* s.split(":", 1)[1] if ":" in s else s
CleanLabel(s) ==
    Bind(s, LAMBDA x : IF Contains(x, ":")
                       THEN SubSeq(x, FirstColon(x) + 1, Len(x))
                       ELSE x)

\* faulty variant: the node is the bare label
NodeKeyShared(user_id, label) == label

\* f"{user_id}:{label}"
NodeKey(user_id, label) == ToString(user_id) \o ":" \o label

(***************************************************************************)
(* Inputs of the callers                                                   *)
(***************************************************************************)
Users == {1, 2}
Threads == {1, 2}
SeqThreads == {1}

Messages == {"hi"}
Responses == {"ok"}
ToolLists == {<< >>}
ActionLabels == {"search_videos"}
LinkResults == { [k \in {"youtube_link"} |-> "youtube.com/v1"] }
Results == LinkResults \cup { [k \in {"playlist_name"} |-> "python"] }
Concepts == {"python"}
RelatedLists == {<< "loops" >>}
LinkTargets == {"loops"}
Relationships == {"depends_on", "video_resource"}
DayArgs == {0, 1}

\* arguments of store_semantic: a list of two related concepts, and one of
\* them stored with the concept as its related concept; targets of
\* link_concepts: another concept, the concept itself, a resource whose label
\* holds "day" and "youtube"
SemanticCalls ==
    { [concept |-> "recursion", related_concepts |-> << "loops", "functions" >>],
      [concept |-> "loops", related_concepts |-> << "recursion" >>] }
ResourceTargets == {"loops", "python", "youtube.com/day1"}
ResourceRelationships == {"video_resource", "note_resource", "depends_on"}

\* arguments of store_conversation whose texts need escaping in JSON
Dialogues ==
    { [user_message |-> "hi", ai_response |-> "ok", tools_used |-> << >>],
      [user_message |-> "say \"hi\"", ai_response |-> "a\\b\nc",
       tools_used |-> << "search_videos", "notes, \"day\"" >>] }

(***************************************************************************)
(* The embedding model (SentenceTransformer.encode): a function of the     *)
(* text alone, into vectors of three components.  The vectors have pairs   *)
(* with cosine above, at and below one half.                               *)
(***************************************************************************)
Embeddings == << << 1, 1, 0 >>, << 0, 1, 1 >>, << 2, 1, 0 >>, << 0, 2, 1 >>, << -1, 0, 1 >> >>

encode(text) == Embeddings[(Len(text) % Len(Embeddings)) + 1]
None == "None"

(***************************************************************************)
(* json.dumps(metadata, default=str) and json.loads on the metadata of the *)
(* entries: a dictionary of string keys whose values are strings or lists  *)
(* of strings.  The JSON text is built and parsed character by character;  *)
(* the members are written in the insertion order of the dictionary.       *)
(***************************************************************************)
Quote == "\""
Backslash == "\\"
Newline == "\n"

\* the keys of the metadata dictionaries, in the order the code inserts them,
\* and those whose values are lists
KeyOrder == << "user_message", "ai_response", "tools_used", "youtube_link",
               "playlist_name", "related_concepts", "query", "video_links" >>
ListKeys == {"tools_used", "related_concepts", "video_links"}

EscapeChar(c) ==
    IF c = Quote THEN Backslash \o Quote
    ELSE IF c = Backslash THEN Backslash \o Backslash
    ELSE IF c = Newline THEN Backslash \o "n"
    ELSE c

RECURSIVE EscapeFrom(_, _)
EscapeFrom(s, i) ==
    IF i > Len(s) THEN "" ELSE EscapeChar(CharAt(s, i)) \o EscapeFrom(s, i + 1)

JsonString(s) == Bind(s, LAMBDA x : Quote \o EscapeFrom(x, 1) \o Quote)

RECURSIVE JsonItems(_, _)
JsonItems(items, i) ==
    IF i > Len(items) THEN ""
    ELSE (IF i > 1 THEN ", " ELSE "") \o JsonString(items[i]) \o JsonItems(items, i + 1)

JsonArray(items) == Bind(items, LAMBDA xs : "[" \o JsonItems(xs, 1) \o "]")

RECURSIVE JsonMembers(_, _, _)
JsonMembers(m, keys, i) ==
    IF i > Len(keys) THEN ""
    ELSE (IF i > 1 THEN ", " ELSE "")
         \o JsonString(keys[i]) \o ": "
         \o (IF keys[i] \in ListKeys THEN JsonArray(m[keys[i]]) ELSE JsonString(m[keys[i]]))
         \o JsonMembers(m, keys, i + 1)

json_dumps(m) ==
    Bind(SelectSeq(KeyOrder, LAMBDA k : k \in DOMAIN m), LAMBDA keys :
       "{" \o JsonMembers(m, keys, 1) \o "}")

\* faulty variant: escapes are not decoded
RECURSIVE StringBodyRaw(_, _)
StringBodyRaw(text, i) ==
    Bind(CharAt(text, i), LAMBDA c :
       IF c = Quote THEN [value |-> "", next |-> i + 1]
       ELSE IF c = Backslash
       THEN Bind(StringBodyRaw(text, i + 2), LAMBDA rest :
               [value |-> c \o CharAt(text, i + 1) \o rest.value, next |-> rest.next])
       ELSE Bind(StringBodyRaw(text, i + 1), LAMBDA rest :
               [value |-> c \o rest.value, next |-> rest.next]))

\* the characters of a JSON string from position i, which follows its
\* opening quote, to its closing quote: the decoded value and the position
\* after the closing quote
RECURSIVE StringBody(_, _)
StringBody(text, i) ==
    Bind(CharAt(text, i), LAMBDA c :
       IF c = Quote THEN [value |-> "", next |-> i + 1]
       ELSE IF c = Backslash
       THEN Bind(StringBody(text, i + 2), LAMBDA rest :
               [value |-> (IF CharAt(text, i + 1) = "n" THEN Newline
                           ELSE CharAt(text, i + 1)) \o rest.value,
                next |-> rest.next])
       ELSE Bind(StringBody(text, i + 1), LAMBDA rest :
               [value |-> c \o rest.value, next |-> rest.next]))

\* the items of a JSON array of strings from position i, which is at the
\* opening quote of an item
RECURSIVE ArrayItems(_, _)
ArrayItems(text, i) ==
    Bind(StringBody(text, i + 1), LAMBDA item :
       IF CharAt(text, item.next) = ","
       THEN Bind(ArrayItems(text, item.next + 2), LAMBDA rest :
               [value |-> << item.value >> \o rest.value, next |-> rest.next])
       ELSE [value |-> << item.value >>, next |-> item.next + 1])

\* the JSON value at position i: an array or a string
JsonValue(text, i) ==
    IF CharAt(text, i) = "["
    THEN IF CharAt(text, i + 1) = "]" THEN [value |-> << >>, next |-> i + 2]
         ELSE ArrayItems(text, i + 1)
    ELSE StringBody(text, i + 1)

\* the members of a JSON object from position i, which is at the opening
\* quote of a key
RECURSIVE ObjectMembers(_, _)
ObjectMembers(text, i) ==
    Bind(StringBody(text, i + 1), LAMBDA key :
    Bind(JsonValue(text, key.next + 2), LAMBDA val :
       << [key |-> key.value, value |-> val.value] >>
       \o (IF CharAt(text, val.next) = "," THEN ObjectMembers(text, val.next + 2)
           ELSE << >>)))

json_loads(text) ==
    Bind(text, LAMBDA x :
    Bind(IF CharAt(x, 2) = "}" THEN << >> ELSE ObjectMembers(x, 2), LAMBDA members :
       [k \in {members[i].key : i \in DOMAIN members} |->
           members[CHOOSE i \in DOMAIN members :
                      /\ members[i].key = k
                      /\ \A j \in DOMAIN members : members[j].key = k => j <= i].value]))

\* json.dumps and json.loads on the embedding: a list of numbers (whole
\* numbers here), or None
JsonNull == "null"

RECURSIVE JsonNumberItems(_, _)
JsonNumberItems(numbers, i) ==
    IF i > Len(numbers) THEN ""
    ELSE (IF i > 1 THEN ", " ELSE "") \o ToString(numbers[i])
         \o JsonNumberItems(numbers, i + 1)

json_dumps_embedding(embedding) ==
    IF embedding = None THEN JsonNull
    ELSE Bind(embedding, LAMBDA xs : "[" \o JsonNumberItems(xs, 1) \o "]")

Digits == "0123456789"
DigitValue(c) == (CHOOSE d \in 1..Len(Digits) : CharAt(Digits, d) = c) - 1
IsDigitChar(c) == \E d \in 1..Len(Digits) : CharAt(Digits, d) = c

\* the digits of text from i on: their value after the value so far, and the
\* position after them
RECURSIVE DigitsFrom(_, _, _)
DigitsFrom(text, i, sofar) ==
    IF i <= Len(text) /\ IsDigitChar(CharAt(text, i))
    THEN DigitsFrom(text, i + 1, 10 * sofar + DigitValue(CharAt(text, i)))
    ELSE [value |-> sofar, next |-> i]

JsonNumber(text, i) ==
    IF CharAt(text, i) = "-"
    THEN Bind(DigitsFrom(text, i + 1, 0), LAMBDA n : [value |-> 0 - n.value, next |-> n.next])
    ELSE DigitsFrom(text, i, 0)

RECURSIVE NumberItems(_, _)
NumberItems(text, i) ==
    Bind(JsonNumber(text, i), LAMBDA item :
       IF CharAt(text, item.next) = ","
       THEN << item.value >> \o NumberItems(text, item.next + 2)
       ELSE << item.value >>)

json_loads_embedding(text) ==
    Bind(text, LAMBDA x :
       IF x = JsonNull THEN None
       ELSE IF CharAt(x, 2) = "]" THEN << >>
       ELSE NumberItems(x, 2))

VARIABLES
    memory_entries,   \* rows of table memory_entries
    entry_seq,        \* AUTOINCREMENT counter of memory_entries
    knowledge_graph,  \* rows of table knowledge_graph
    edge_seq,         \* AUTOINCREMENT counter of knowledge_graph
    kg_nodes,         \* self.knowledge_graph: the nodes of the DiGraph
    kg_adj,           \* self.knowledge_graph: the edges, in insertion order
    now,              \* the wall clock
    frame,            \* per caller: the call it is inside
    outcome           \* per caller: how its last call ended

vars == << memory_entries, entry_seq, knowledge_graph, edge_seq,
           kg_nodes, kg_adj, now, frame, outcome >>

db_vars == << memory_entries, entry_seq, knowledge_graph, edge_seq >>
graph_vars == << kg_nodes, kg_adj >>

NoEntry == [memory_type |-> None, embedding |-> None]
IdleFrame == [op |-> "idle", user_id |-> 0, todo |-> << >>, entry |-> NoEntry, rowid |-> 0]

\* AgentMemoryManager.__init__ over a database that does not exist yet
Init ==
    /\ memory_entries = {}
    /\ entry_seq = 0
    /\ knowledge_graph = {}
    /\ edge_seq = 0
    /\ kg_nodes = {}
    /\ kg_adj = << >>
    /\ now = StartClock
    /\ frame = [t \in Threads |-> IdleFrame]
    /\ outcome = [t \in Threads |-> "none"]

(***************************************************************************)
(* Frames                                                                  *)
(***************************************************************************)
Idle(t) == frame[t].op = "idle"

EncodeStep == [k |-> "encode"]
InsertStep == [k |-> "insert"]
RowStep(user_id, source, target, relationship) ==
    [k |-> "row", user_id |-> user_id, source |-> source, target |-> target,
     relationship |-> relationship]
NodesStep(user_id, source, target, relationship) ==
    [k |-> "nodes", user_id |-> user_id, source |-> source, target |-> target,
     relationship |-> relationship]
AdjStep(user_id, source, target, relationship) ==
    [k |-> "adj", user_id |-> user_id, source |-> source, target |-> target,
     relationship |-> relationship]

\* the statements of one _add_to_graph call
AddToGraphSteps(user_id, source, target, relationship) ==
    << RowStep(user_id, source, target, relationship),
       NodesStep(user_id, source, target, relationship),
       AdjStep(user_id, source, target, relationship) >>

CountKind(todo, kind) == Cardinality({i \in DOMAIN todo : todo[i].k = kind})

RECURSIVE SumOver(_, _)
SumOver(S, kind) ==
    IF S = {} THEN 0
    ELSE LET t == CHOOSE x \in S : TRUE
         IN CountKind(frame[t].todo, kind) + SumOver(S \ {t}, kind)

PendingEntries == SumOver(Threads, "insert")
PendingEdges == SumOver(Threads, "row")

\* the rows that an earlier process wrote: their timestamps lie before the
\* start of this one
Preloaded ==
    Cardinality({r \in memory_entries : TextLess(r.timestamp, isoformat(StartClock))})

RoomFor(entries, edges) ==
    /\ entry_seq + PendingEntries + entries <= MaxEntries + Preloaded
    /\ edge_seq + PendingEdges + edges <= MaxEdges

\* the caller leaves the method: normally, or with an exception
Return(t) ==
    /\ frame' = [frame EXCEPT ![t] = IdleFrame]
    /\ outcome' = [outcome EXCEPT ![t] = "returned"]

\* the exceptions that leave a method
EncodeError == "EncodeError"      \* raised by embedding_model.encode
StorageError == "sqlite3.Error"   \* raised by execute or commit
MirrorError == "MemoryError"      \* raised while the DiGraph is updated
Exceptions == {EncodeError, StorageError, MirrorError}

Raise(t, exc) ==
    /\ frame' = [frame EXCEPT ![t] = IdleFrame]
    /\ outcome' = [outcome EXCEPT ![t] = exc]

\* the head of the queue is done; the call returns when nothing is left
Advance(t, fr) ==
    IF Tail(fr.todo) = << >>
    THEN Return(t)
    ELSE /\ frame' = [frame EXCEPT ![t] = [fr EXCEPT !.todo = Tail(fr.todo)]]
         /\ UNCHANGED outcome

AtStep(t, kind) ==
    /\ frame[t].todo # << >>
    /\ Head(frame[t].todo).k = kind

(***************************************************************************)
(* MemoryEntry and the write path of memory_entries                        *)
(***************************************************************************)
MemoryEntry(user_id, content, memory_type, metadata, timestamp) ==
    [user_id |-> user_id, content |-> content, memory_type |-> memory_type,
     metadata |-> metadata, timestamp |-> timestamp, embedding |-> None]

\* a caller enters a store method: the entry is built, _store_entry and the
\* graph updates that follow it are still to run
EnterStore(t, op, entry, graph_steps) ==
    /\ frame' = [frame EXCEPT ![t] =
                    [op |-> op, user_id |-> entry.user_id,
                     todo |-> << EncodeStep, InsertStep >> \o graph_steps,
                     entry |-> entry, rowid |-> 0]]
    /\ outcome' = [outcome EXCEPT ![t] = "none"]
    /\ UNCHANGED << db_vars, graph_vars, now >>

EnterGraph(t, op, user_id, graph_steps) ==
    /\ frame' = [frame EXCEPT ![t] =
                    [op |-> op, user_id |-> user_id, todo |-> graph_steps,
                     entry |-> NoEntry, rowid |-> 0]]
    /\ outcome' = [outcome EXCEPT ![t] = "none"]
    /\ UNCHANGED << db_vars, graph_vars, now >>

store_conversation(t, user_id, user_message, ai_response, tools_used) ==
    /\ Idle(t)
    /\ RoomFor(1, 0)
    /\ LET conversation_data ==
               [user_message |-> user_message, ai_response |-> ai_response,
                tools_used |-> tools_used]
           entry == MemoryEntry(user_id,
                                "User: " \o user_message \o "\nAI: " \o ai_response,
                                "conversation", conversation_data, now)
       IN EnterStore(t, "store_conversation", entry, << >>)

store_episodic(t, user_id, action, result) ==
    /\ Idle(t)
    /\ LET entry == MemoryEntry(user_id, "Action: " \o action, "episodic", result, now)
           link_steps ==
               IF "youtube_link" \in DOMAIN result
               THEN AddToGraphSteps(user_id, action, result["youtube_link"], "created_link")
               ELSE << >>
           playlist_steps ==
               IF "playlist_name" \in DOMAIN result
               THEN AddToGraphSteps(user_id, action, result["playlist_name"],
                                    "created_playlist")
               ELSE << >>
           graph_steps == link_steps \o playlist_steps
       IN /\ RoomFor(1, CountKind(graph_steps, "row"))
          /\ EnterStore(t, "store_episodic", entry, graph_steps)

\* faulty variant: every related concept is linked back to the concept
RECURSIVE RelatedStepsBothWays(_, _, _)
RelatedStepsBothWays(user_id, concept, related_concepts) ==
    IF related_concepts = << >> THEN << >>
    ELSE AddToGraphSteps(user_id, concept, Head(related_concepts), "related_to")
         \o AddToGraphSteps(user_id, Head(related_concepts), concept, "related_to")
         \o RelatedStepsBothWays(user_id, concept, Tail(related_concepts))

RECURSIVE RelatedSteps(_, _, _)
RelatedSteps(user_id, concept, related_concepts) ==
    IF related_concepts = << >> THEN << >>
    ELSE AddToGraphSteps(user_id, concept, Head(related_concepts), "related_to")
         \o RelatedSteps(user_id, concept, Tail(related_concepts))

store_semantic(t, user_id, concept, related_concepts) ==
    /\ Idle(t)
    /\ LET entry == MemoryEntry(user_id, concept, "semantic",
                                [related_concepts |-> related_concepts], now)
           graph_steps == RelatedSteps(user_id, concept, related_concepts)
       IN /\ RoomFor(1, CountKind(graph_steps, "row"))
          /\ EnterStore(t, "store_semantic", entry, graph_steps)

\* faulty variant: a failed encode is swallowed and the entry is written
\* without its embedding
store_entry_encode_swallowed(t) ==
    /\ AtStep(t, "encode")
    /\ \E ok \in BOOLEAN :
          IF ok
          THEN Advance(t, [frame[t] EXCEPT
                              !.entry.embedding = encode(frame[t].entry.content)])
          ELSE Advance(t, frame[t])
    /\ UNCHANGED << db_vars, graph_vars, now >>

\* _store_entry, lines 117-119: the embedding is computed, or encode raises
\* and the exception leaves _store_entry and the store method
store_entry_encode(t) ==
    /\ AtStep(t, "encode")
    /\ \E ok \in BOOLEAN :
          IF ok
          THEN Advance(t, [frame[t] EXCEPT
                              !.entry.embedding = encode(frame[t].entry.content)])
          ELSE Raise(t, EncodeError)
    /\ UNCHANGED << db_vars, graph_vars, now >>

\* the row that the INSERT of _store_entry writes
EntryRow(id, entry) ==
    [id |-> id, user_id |-> entry.user_id, content |-> entry.content,
     memory_type |-> entry.memory_type, metadata |-> json_dumps(entry.metadata),
     timestamp |-> isoformat(entry.timestamp),
     embedding |-> json_dumps_embedding(entry.embedding)]

\* _store_entry, lines 121-137: INSERT and commit, or sqlite3 raises and
\* nothing is written
store_entry_insert(t) ==
    /\ AtStep(t, "insert")
    /\ \E ok \in BOOLEAN :
          IF ok
          THEN /\ memory_entries' =
                      memory_entries \cup {EntryRow(entry_seq + 1, frame[t].entry)}
               /\ entry_seq' = entry_seq + 1
               /\ Advance(t, frame[t])
          ELSE /\ Raise(t, StorageError)
               /\ UNCHANGED << memory_entries, entry_seq >>
    /\ UNCHANGED << knowledge_graph, edge_seq, graph_vars, now >>

(***************************************************************************)
(* The knowledge graph: table knowledge_graph and the DiGraph mirror       *)
(***************************************************************************)
DefaultWeight == 1

\* the row that the INSERT of _add_to_graph writes (its timestamp column is
\* written and never read)
EdgeRow(id, st) ==
    [id |-> id, user_id |-> st.user_id, source_node |-> st.source,
     target_node |-> st.target, relationship |-> st.relationship,
     weight |-> DefaultWeight]

\* faulty variant: a failed INSERT is swallowed and the mirror is updated
add_to_graph_swallowed(t) ==
    /\ AtStep(t, "row")
    /\ \E ok \in BOOLEAN :
          IF ok
          THEN /\ knowledge_graph' =
                      knowledge_graph \cup {EdgeRow(edge_seq + 1, Head(frame[t].todo))}
               /\ edge_seq' = edge_seq + 1
               /\ Advance(t, [frame[t] EXCEPT !.rowid = edge_seq + 1])
          ELSE /\ Advance(t, frame[t])
               /\ UNCHANGED << knowledge_graph, edge_seq >>
    /\ UNCHANGED << memory_entries, entry_seq, graph_vars, now >>

\* _add_to_graph, lines 141-150: INSERT and commit, or sqlite3 raises
add_to_graph(t) ==
    /\ AtStep(t, "row")
    /\ \E ok \in BOOLEAN :
          IF ok
          THEN /\ knowledge_graph' =
                      knowledge_graph \cup {EdgeRow(edge_seq + 1, Head(frame[t].todo))}
               /\ edge_seq' = edge_seq + 1
               /\ Advance(t, [frame[t] EXCEPT !.rowid = edge_seq + 1])
          ELSE /\ Raise(t, StorageError)
               /\ UNCHANGED << knowledge_graph, edge_seq >>
    /\ UNCHANGED << memory_entries, entry_seq, graph_vars, now >>

\* DiGraph.add_edge, first half: both endpoints become nodes.  The statement
\* of line 153 can also end in an exception (MemoryError, KeyboardInterrupt)
\* before the graph is touched.
add_edge_nodes(t) ==
    /\ AtStep(t, "nodes")
    /\ LET st == Head(frame[t].todo)
       IN \E ok \in BOOLEAN :
             IF ok
             THEN /\ kg_nodes' = kg_nodes \cup { NodeKey(st.user_id, st.source),
                                                 NodeKey(st.user_id, st.target) }
                  /\ Advance(t, frame[t])
             ELSE /\ Raise(t, MirrorError)
                  /\ UNCHANGED kg_nodes
    /\ UNCHANGED << db_vars, kg_adj, now >>

\* DiGraph.add_edge, second half: one attribute dictionary per ordered pair
\* of nodes; an existing pair keeps its place and has its attributes updated
DiGraphAddEdge(adj, u, v, relationship, weight) ==
    IF \E i \in DOMAIN adj : adj[i].u = u /\ adj[i].v = v
    THEN [i \in DOMAIN adj |->
             IF adj[i].u = u /\ adj[i].v = v
             THEN [adj[i] EXCEPT !.relationship = relationship, !.weight = weight]
             ELSE adj[i]]
    ELSE Append(adj, [u |-> u, v |-> v, relationship |-> relationship,
                      weight |-> weight])

add_edge_adj(t) ==
    /\ AtStep(t, "adj")
    /\ LET st == Head(frame[t].todo)
       IN kg_adj' = DiGraphAddEdge(kg_adj, NodeKey(st.user_id, st.source),
                                   NodeKey(st.user_id, st.target),
                                   st.relationship, DefaultWeight)
    /\ Advance(t, frame[t])
    /\ UNCHANGED << db_vars, kg_nodes, now >>

\* the statements of one link_concepts call, lines 315-318
LinkSteps(user_id, source_concept, target_concept, relationship) ==
    LET reverse_rel == "reverse_" \o relationship
    IN AddToGraphSteps(user_id, source_concept, target_concept, relationship)
       \o AddToGraphSteps(user_id, target_concept, source_concept, reverse_rel)

link_concepts(t, user_id, source_concept, target_concept, relationship) ==
    /\ Idle(t)
    /\ RoomFor(0, 2)
    /\ EnterGraph(t, "link_concepts", user_id,
                  LinkSteps(user_id, source_concept, target_concept, relationship))

\* the loop of create_learning_path_graph, lines 328-332
RECURSIVE ResourceSteps(_, _, _)
ResourceSteps(user_id, concept, resources) ==
    IF resources = << >> THEN << >>
    ELSE LET resource == Head(resources)
         IN (IF Contains(resource, "youtube") \/ Contains(resource, "video")
             THEN LinkSteps(user_id, concept, resource, "video_resource")
             ELSE IF Contains(resource, "notes") \/ Contains(resource, "drive")
             THEN LinkSteps(user_id, concept, resource, "note_resource")
             ELSE << >>)
            \o ResourceSteps(user_id, concept, Tail(resources))

create_learning_path_graph(t, user_id, day, concept, resources) ==
    /\ Idle(t)
    /\ LET day_node == "day_" \o ToString(day)
           steps == LinkSteps(user_id, day_node, concept, "teaches")
                    \o ResourceSteps(user_id, concept, resources)
       IN /\ edge_seq + PendingEdges + CountKind(steps, "row") <= MaxPathEdges
          /\ EnterGraph(t, "create_learning_path_graph", user_id, steps)

(***************************************************************************)
(* Retention                                                               *)
(***************************************************************************)
DeleteStep(user_id, cutoff_date) ==
    [k |-> "delete", user_id |-> user_id, cutoff_date |-> cutoff_date]

\* faulty variant: rows at the cutoff are swept too
CleanupMatchesAtCutoff(row, user_id, cutoff_date) ==
    /\ row.user_id = user_id
    /\ \/ TextLess(row.timestamp, isoformat(cutoff_date))
       \/ row.timestamp = isoformat(cutoff_date)
    /\ row.memory_type = "conversation"

\* faulty variant: the memory type is not tested
CleanupMatchesAnyType(row, user_id, cutoff_date) ==
    /\ row.user_id = user_id
    /\ TextLess(row.timestamp, isoformat(cutoff_date))

\* faulty variant: the user is not tested
CleanupMatchesAnyUser(row, user_id, cutoff_date) ==
    /\ TextLess(row.timestamp, isoformat(cutoff_date))
    /\ row.memory_type = "conversation"

\* the WHERE clause of the DELETE in cleanup_old_memories
CleanupMatches(row, user_id, cutoff_date) ==
    /\ row.user_id = user_id
    /\ TextLess(row.timestamp, isoformat(cutoff_date))
    /\ row.memory_type = "conversation"

\* line 375: the cutoff is computed from the clock
cleanup_old_memories(t, user_id, days) ==
    /\ Idle(t)
    /\ frame' = [frame EXCEPT ![t] =
                    [op |-> "cleanup_old_memories", user_id |-> user_id,
                     todo |-> << DeleteStep(user_id, now - timedelta(days)) >>,
                     entry |-> NoEntry, rowid |-> 0]]
    /\ outcome' = [outcome EXCEPT ![t] = "none"]
    /\ UNCHANGED << db_vars, graph_vars, now >>

\* faulty variant: the DELETE removes one matching row per call
cleanup_delete_one(t) ==
    /\ AtStep(t, "delete")
    /\ LET st == Head(frame[t].todo)
           matching == {row \in memory_entries :
                           CleanupMatches(row, st.user_id, st.cutoff_date)}
       IN \E ok \in BOOLEAN :
             IF ok
             THEN /\ memory_entries' =
                        IF matching = {} THEN memory_entries
                        ELSE memory_entries \ {CHOOSE row \in matching : TRUE}
                  /\ Advance(t, frame[t])
             ELSE /\ UNCHANGED memory_entries
                  /\ Raise(t, StorageError)
    /\ UNCHANGED << entry_seq, knowledge_graph, edge_seq, graph_vars, now >>

\* faulty variant: rows are deleted and committed one by one, and a failure
\* leaves the rows deleted so far deleted
cleanup_delete_partial(t) ==
    /\ AtStep(t, "delete")
    /\ LET st == Head(frame[t].todo)
           matching == {row \in memory_entries :
                           CleanupMatches(row, st.user_id, st.cutoff_date)}
       IN \E ok \in BOOLEAN :
             IF ok
             THEN /\ memory_entries' = memory_entries \ matching
                  /\ Advance(t, frame[t])
             ELSE /\ \E done \in SUBSET matching : memory_entries' = memory_entries \ done
                  /\ Raise(t, StorageError)
    /\ UNCHANGED << entry_seq, knowledge_graph, edge_seq, graph_vars, now >>

\* lines 377-386: DELETE and commit, or sqlite3 raises and no row is deleted
cleanup_delete(t) ==
    /\ AtStep(t, "delete")
    /\ LET st == Head(frame[t].todo)
       IN \E ok \in BOOLEAN :
             IF ok
             THEN /\ memory_entries' =
                        {row \in memory_entries :
                            ~CleanupMatches(row, st.user_id, st.cutoff_date)}
                  /\ Advance(t, frame[t])
             ELSE /\ UNCHANGED memory_entries
                  /\ Raise(t, StorageError)
    /\ UNCHANGED << entry_seq, knowledge_graph, edge_seq, graph_vars, now >>

(***************************************************************************)
(* The environment: time passes; the process is restarted                  *)
(***************************************************************************)
Tick ==
    /\ now < MaxClock
    /\ now' = now + 1
    /\ UNCHANGED << db_vars, graph_vars, frame, outcome >>

\* the module is imported again: AgentMemoryManager() runs __init__, which
\* creates an empty DiGraph and the tables if they do not exist
Restart ==
    /\ kg_nodes' = {}
    /\ kg_adj' = << >>
    /\ frame' = [t \in Threads |-> IdleFrame]
    /\ outcome' = [t \in Threads |-> "none"]
    /\ UNCHANGED << db_vars, now >>

(***************************************************************************)
(* Graph reads                                                             *)
(***************************************************************************)
\* DiGraph.neighbors(node): the successors of node, in insertion order
neighbors(node) ==
    Bind(SelectSeq(kg_adj, LAMBDA e : e.u = node), LAMBDA out :
       [i \in DOMAIN out |-> out[i].v])

\* DiGraph.get_edge_data(u, v)
get_edge_data(u, v) ==
    LET i == CHOOSE i \in DOMAIN kg_adj : kg_adj[i].u = u /\ kg_adj[i].v = v
    IN kg_adj[i]

get_related_concepts(user_id, concept) ==
    Bind(NodeKey(user_id, concept), LAMBDA user_concept :
       IF user_concept \in kg_nodes
       THEN Bind(neighbors(user_concept), LAMBDA ns :
               [i \in DOMAIN ns |-> CleanLabel(ns[i])])
       ELSE << >>)

\* str.lower() on ASCII text
UpperCase == "ABCDEFGHIJKLMNOPQRSTUVWXYZ"
LowerCase == "abcdefghijklmnopqrstuvwxyz"
LowerMap ==
    [c \in {CharAt(UpperCase, i) : i \in 1..Len(UpperCase)} |->
        CharAt(LowerCase, CHOOSE i \in 1..Len(UpperCase) : CharAt(UpperCase, i) = c)]
LowerChar(c) == IF c \in DOMAIN LowerMap THEN LowerMap[c] ELSE c

RECURSIVE LowerFrom(_, _)
LowerFrom(s, i) ==
    IF i > Len(s) THEN "" ELSE LowerChar(CharAt(s, i)) \o LowerFrom(s, i + 1)

Lower(s) == Bind(s, LAMBDA x : LowerFrom(x, 1))

programming_concepts ==
    << "python", "javascript", "recursion", "loops", "functions", "variables",
       "classes", "objects", "arrays", "strings", "algorithms", "data structures" >>

IsDigit(c) == c \in {"0", "1", "2", "3", "4", "5", "6", "7", "8", "9"}
IsSpace(c) == c \in {" ", "\t", "\n", "\r", "\f"}

\* the end of the run of white space, and of digits, that starts at i
RECURSIVE SpaceEnd(_, _)
SpaceEnd(s, i) ==
    IF i <= Len(s) /\ IsSpace(CharAt(s, i)) THEN SpaceEnd(s, i + 1) ELSE i

RECURSIVE DigitEnd(_, _)
DigitEnd(s, i) ==
    IF i <= Len(s) /\ IsDigit(CharAt(s, i)) THEN DigitEnd(s, i + 1) ELSE i

\* re.findall(r'day\s*(\d+)', s): the matches from position i on, left to
\* right and not overlapping
RECURSIVE DayMatches(_, _)
DayMatches(s, i) ==
    IF i + 2 > Len(s) THEN << >>
    ELSE IF SubSeq(s, i, i + 2) = "day"
         THEN Bind(SpaceEnd(s, i + 3), LAMBDA d :
              Bind(DigitEnd(s, d), LAMBDA e :
                 IF e > d
                 THEN << SubSeq(s, d, e - 1) >> \o DayMatches(s, e)
                 ELSE DayMatches(s, i + 1)))
         ELSE DayMatches(s, i + 1)

extract_concepts(text) ==
    Bind(Lower(text), LAMBDA text_lower :
       LET found_concepts == SelectSeq(programming_concepts,
                                       LAMBDA c : Contains(text_lower, c))
           day_matches == DayMatches(text_lower, 1)
       IN found_concepts \o [i \in DOMAIN day_matches |-> "day_" \o day_matches[i]])

\* faulty variant: the test for videos comes before the test for notes
BucketVideoFirst(relationship, clean_neighbor) ==
    Bind(Lower(clean_neighbor), LAMBDA neighbor_lower :
       IF Contains(relationship, "video") \/ Contains(neighbor_lower, "youtube")
       THEN "related_videos"
       ELSE IF Contains(relationship, "note") \/ Contains(neighbor_lower, "day")
       THEN "related_notes"
       ELSE IF Contains(relationship, "depends")
       THEN "concept_dependencies"
       ELSE "none")

\* the if/elif chain of get_graph_context, lines 279-286: the bucket that a
\* neighbour is appended to
Bucket(relationship, clean_neighbor) ==
    Bind(Lower(clean_neighbor), LAMBDA neighbor_lower :
       IF Contains(relationship, "note") \/ Contains(neighbor_lower, "day")
       THEN "related_notes"
       ELSE IF Contains(relationship, "video") \/ Contains(neighbor_lower, "youtube")
       THEN "related_videos"
       ELSE IF Contains(relationship, "depends")
       THEN "concept_dependencies"
       ELSE "none")

\* the inner loop, lines 271-286, for one query concept: its neighbours in
\* adjacency order, each with its bucket
ClassifiedNeighbors(user_id, concept) ==
    Bind(NodeKey(user_id, concept), LAMBDA user_concept :
       IF user_concept \in kg_nodes
       THEN Bind(neighbors(user_concept), LAMBDA ns :
               [i \in DOMAIN ns |->
                   Bind(CleanLabel(ns[i]), LAMBDA clean_neighbor :
                      [bucket |-> Bucket(get_edge_data(user_concept, ns[i]).relationship,
                                         clean_neighbor),
                       concept |-> concept,
                       neighbor |-> clean_neighbor])])
       ELSE << >>)

\* the outer loop, lines 266-286, over the first n query concepts
RECURSIVE ClassifiedUpTo(_, _, _)
ClassifiedUpTo(user_id, query_concepts, n) ==
    IF n = 0 THEN << >>
    ELSE ClassifiedUpTo(user_id, query_concepts, n - 1)
         \o ClassifiedNeighbors(user_id, query_concepts[n])

InBucket(items, bucket) == SelectSeq(items, LAMBDA it : it.bucket = bucket)

\* lines 259-288 for the concepts extracted from the query;
\* concept_dependencies maps each concept that has dependencies to their list
graph_context(user_id, query_concepts) ==
    Bind(ClassifiedUpTo(user_id, query_concepts, Len(query_concepts)), LAMBDA items :
       LET notes == InBucket(items, "related_notes")
           videos == InBucket(items, "related_videos")
           deps == InBucket(items, "concept_dependencies")
       IN [related_notes |-> [i \in DOMAIN notes |-> notes[i].neighbor],
           related_videos |-> [i \in DOMAIN videos |-> videos[i].neighbor],
           concept_dependencies |->
               [c \in {deps[i].concept : i \in DOMAIN deps} |->
                   LET mine == SelectSeq(deps, LAMBDA it : it.concept = c)
                   IN [i \in DOMAIN mine |-> mine[i].neighbor]],
           learning_path |-> << >>])

get_graph_context(user_id, query) ==
    Bind(extract_concepts(query), LAMBDA query_concepts :
       graph_context(user_id, query_concepts))

(***************************************************************************)
(* Entry reads                                                             *)
(***************************************************************************)
\* the row that ORDER BY timestamp DESC puts first; rows with equal
\* timestamps come in rowid order
Newest(rows) ==
    CHOOSE r \in rows :
       \A q \in rows \ {r} :
          \/ TextLess(q.timestamp, r.timestamp)
          \/ q.timestamp = r.timestamp /\ r.id < q.id

RECURSIVE OrderByTimestampDesc(_)
OrderByTimestampDesc(rows) ==
    Bind(rows, LAMBDA rs :
       IF rs = {} THEN << >>
       ELSE Bind(Newest(rs), LAMBDA first :
               << first >> \o OrderByTimestampDesc(rs \ {first})))

Limit(rows, n) ==
    Bind(rows, LAMBDA rs : SubSeq(rs, 1, IF Len(rs) < n THEN Len(rs) ELSE n))

\* the dictionaries built from the selected rows
Recalled(rows) ==
    Bind(rows, LAMBDA rs :
       [i \in DOMAIN rs |->
           [content |-> rs[i].content, metadata |-> json_loads(rs[i].metadata),
            timestamp |-> rs[i].timestamp]])

\* SQLite's text LIKE pattern, from position i of the text and j of the
\* pattern: % stands for any run of characters, _ for any one character, and
\* ASCII letters match whatever their case
RECURSIVE LikeFrom(_, _, _, _)
LikeFrom(text, i, pattern, j) ==
    IF j > Len(pattern) THEN i > Len(text)
    ELSE IF CharAt(pattern, j) = "%"
    THEN \E k \in i..(Len(text) + 1) : LikeFrom(text, k, pattern, j + 1)
    ELSE IF i > Len(text) THEN FALSE
    ELSE IF \/ CharAt(pattern, j) = "_"
            \/ LowerChar(CharAt(pattern, j)) = LowerChar(CharAt(text, i))
    THEN LikeFrom(text, i + 1, pattern, j + 1)
    ELSE FALSE

\* content LIKE ? with the parameter f'%{action_type}%' of line 191
Like(content, action_type) ==
    \E text \in {content}, pattern \in {"%" \o action_type \o "%"} :
       LikeFrom(text, 1, pattern, 1)

EpisodicLimit == 20

\* action_type = None stands for the call without a filter
recall_episodic(user_id, action_type) ==
    LET selected == {row \in memory_entries :
                        /\ row.user_id = user_id
                        /\ row.memory_type = "episodic"
                        /\ (action_type # None /\ action_type # "")
                              => Like(row.content, action_type)}
    IN Recalled(Limit(OrderByTimestampDesc(selected), EpisodicLimit))

\* the first recalled entry whose metadata has the key, None when none has
get_last_youtube_link(user_id) ==
    Bind(recall_episodic(user_id, "youtube"), LAMBDA episodic_memories :
       LET having == {i \in DOMAIN episodic_memories :
                         "youtube_link" \in DOMAIN episodic_memories[i].metadata}
       IN IF having = {} THEN None
          ELSE episodic_memories[CHOOSE i \in having : \A j \in having : i <= j]
                  .metadata["youtube_link"])

\* list(set(playlists)): the order of the list is that of a set, so the
\* value is kept as the set of its items
get_user_playlists(user_id) ==
    Bind(recall_episodic(user_id, "playlist"), LAMBDA episodic_memories :
       {episodic_memories[i].metadata["playlist_name"] :
           i \in {j \in DOMAIN episodic_memories :
                     "playlist_name" \in DOMAIN episodic_memories[j].metadata}})

\* LIMIT ? with a limit that is not negative
recall_conversation(user_id, limit) ==
    LET selected == {row \in memory_entries :
                        row.user_id = user_id /\ row.memory_type = "conversation"}
    IN Recalled(Limit(OrderByTimestampDesc(selected), limit))

\* np.dot and the square of np.linalg.norm
Dot(a, b) == a[1] * b[1] + a[2] * b[2] + a[3] * b[3]
NormSquared(a) == Dot(a, a)

\* the cosine of two vectors is dot / sqrt(scale): kept as the two whole
\* numbers, in exact arithmetic
Cosine(query_embedding, stored_embedding) ==
    [dot |-> Dot(query_embedding, stored_embedding),
     scale |-> NormSquared(query_embedding) * NormSquared(stored_embedding)]

\* a < b for cosines
CosineLess(a, b) ==
    IF a.dot <= 0 /\ b.dot <= 0
    THEN b.dot * b.dot * a.scale < a.dot * a.dot * b.scale
    ELSE IF a.dot <= 0 THEN TRUE
    ELSE IF b.dot <= 0 THEN FALSE
    ELSE a.dot * a.dot * b.scale < b.dot * b.dot * a.scale

\* faulty variant: a similarity of one half passes
AboveThresholdInclusive(similarity) ==
    similarity.dot > 0 /\ 4 * similarity.dot * similarity.dot >= similarity.scale

\* faulty variant: the comparison is turned round
AboveThresholdInverted(similarity) ==
    ~ (similarity.dot > 0 /\ 4 * similarity.dot * similarity.dot >= similarity.scale)

\* similarity > 0.5
AboveThreshold(similarity) ==
    similarity.dot > 0 /\ 4 * similarity.dot * similarity.dot > similarity.scale

\* cursor.fetchall(): the rows in rowid order
RECURSIVE FetchAll(_)
FetchAll(rows) ==
    Bind(rows, LAMBDA rs :
       IF rs = {} THEN << >>
       ELSE Bind(CHOOSE r \in rs : \A q \in rs : r.id <= q.id, LAMBDA first :
               << first >> \o FetchAll(rs \ {first})))

\* results.sort(key=similarity, reverse=True): stable, items of equal
\* similarity keep their order
RECURSIVE SortBySimilarity(_)
SortBySimilarity(results) ==
    Bind(results, LAMBDA rs :
       IF rs = << >> THEN << >>
       ELSE Bind(CHOOSE i \in DOMAIN rs :
                    /\ \A j \in DOMAIN rs : ~ CosineLess(rs[i].similarity, rs[j].similarity)
                    /\ \A j \in 1..(i - 1) : CosineLess(rs[j].similarity, rs[i].similarity),
                 LAMBDA top :
                    << rs[top] >>
                    \o SortBySimilarity([j \in 1..(Len(rs) - 1) |->
                                            IF j < top THEN rs[j] ELSE rs[j + 1]])))

\* the loop of lines 220-232: the rows that pass the threshold, in row order
SearchResults(rows, query_embedding) ==
    Bind(rows, LAMBDA rs :
       LET scored == [i \in DOMAIN rs |->
                         [content |-> rs[i].content,
                          metadata |-> json_loads(rs[i].metadata),
                          timestamp |-> rs[i].timestamp,
                          similarity |->
                              Bind(json_loads_embedding(rs[i].embedding),
                                   LAMBDA stored_embedding :
                                      Cosine(query_embedding, stored_embedding))]]
       IN SelectSeq(scored, LAMBDA item : AboveThreshold(item.similarity)))

\* faulty variant: the rows of every user are searched
semantic_search_all_users(user_id, query, limit) ==
    Bind(encode(query), LAMBDA query_embedding :
       Limit(SortBySimilarity(SearchResults(FetchAll(memory_entries), query_embedding)),
             limit))

\* results[:limit] with a limit that is not negative
semantic_search(user_id, query, limit) ==
    Bind(encode(query), LAMBDA query_embedding :
       LET selected == {row \in memory_entries : row.user_id = user_id}
       IN Limit(SortBySimilarity(SearchResults(FetchAll(selected), query_embedding)),
                limit))

\* the summary of line 370
Summary(matches, notes) ==
    "Found " \o ToString(matches) \o " semantic matches, "
    \o ToString(notes) \o " related notes"

\* faulty variant: the recent actions are not cut to five
get_contextual_memory_uncut(user_id, query) ==
    Bind(semantic_search(user_id, query, 5), LAMBDA semantic_results :
    Bind(get_graph_context(user_id, query), LAMBDA context :
    Bind(recall_episodic(user_id, None), LAMBDA recent_actions :
       [semantic_matches |-> semantic_results,
        graph_context |-> context,
        recent_actions |-> recent_actions,
        summary |-> Summary(Len(semantic_results), Len(context.related_notes))])))

get_contextual_memory(user_id, query) ==
    Bind(semantic_search(user_id, query, 5), LAMBDA semantic_results :
    Bind(get_graph_context(user_id, query), LAMBDA context :
    Bind(Limit(recall_episodic(user_id, None), 5), LAMBDA recent_actions :
       [semantic_matches |-> semantic_results,
        graph_context |-> context,
        recent_actions |-> recent_actions,
        summary |-> Summary(Len(semantic_results), Len(context.related_notes))])))

(***************************************************************************)
(* Specifications                                                          *)
(***************************************************************************)
CallStore(t) ==
    \/ \E u \in Users, m \in Messages, r \in Responses, tl \in ToolLists :
          store_conversation(t, u, m, r, tl)
    \/ \E u \in Users, a \in ActionLabels, res \in LinkResults :
          store_episodic(t, u, a, res)
    \/ \E u \in Users, c \in Concepts, rel \in RelatedLists :
          store_semantic(t, u, c, rel)

CallGraph(t) ==
    \/ \E u \in Users, a \in ActionLabels, res \in Results :
          store_episodic(t, u, a, res)
    \/ \E u \in Users, c \in Concepts, rel \in RelatedLists :
          store_semantic(t, u, c, rel)
    \/ \E u \in Users, c \in Concepts, d \in LinkTargets, rel \in Relationships :
          link_concepts(t, u, c, d, rel)

CallCleanup(t) ==
    \E u \in Users, d \in DayArgs : cleanup_old_memories(t, u, d)

StepEntry(t) ==
    \/ store_entry_encode(t)
    \/ store_entry_insert(t)

StepGraph(t) ==
    \/ add_to_graph(t)
    \/ add_edge_nodes(t)
    \/ add_edge_adj(t)

\* the entry log and its retention, one caller at a time
Next ==
    \/ \E t \in SeqThreads :
          CallStore(t) \/ CallCleanup(t) \/ StepEntry(t) \/ StepGraph(t) \/ cleanup_delete(t)
    \/ Tick

Spec == Init /\ [][Next]_vars

\* the knowledge graph across restarts, one caller at a time
NextGraph ==
    \/ \E t \in SeqThreads : CallGraph(t) \/ StepEntry(t) \/ StepGraph(t)
    \/ Restart

SpecGraph == Init /\ [][NextGraph]_vars

\* the knowledge graph under concurrent callers, one session per user
SessionUser(t) == t

CallSession(t) ==
    \/ \E c \in Concepts, rel \in RelatedLists :
          store_semantic(t, SessionUser(t), c, rel)
    \/ \E c \in Concepts, d \in LinkTargets, rel \in Relationships :
          link_concepts(t, SessionUser(t), c, d, rel)

NextConc ==
    \E t \in Threads : CallSession(t) \/ StepEntry(t) \/ StepGraph(t)

SpecConc == Init /\ [][NextConc]_vars

\* the entry log under concurrent callers
NextLog ==
    \/ \E t \in Threads :
          \/ \E u \in Users, m \in Messages, r \in Responses, tl \in ToolLists :
                store_conversation(t, u, m, r, tl)
          \/ StepEntry(t)
    \/ Tick

SpecLog == Init /\ [][NextLog]_vars

\* the conversation log and its retention, one caller at a time
NextRecall ==
    \/ \E t \in SeqThreads :
          \/ \E u \in Users, d \in Dialogues :
                store_conversation(t, u, d.user_message, d.ai_response, d.tools_used)
          \/ CallCleanup(t)
          \/ StepEntry(t)
          \/ cleanup_delete(t)
    \/ Tick

SpecRecall == Init /\ [][NextRecall]_vars

\* semantic stores, one caller at a time
NextSemantic ==
    \E t \in SeqThreads :
       \/ \E u \in Users, c \in SemanticCalls :
             store_semantic(t, u, c.concept, c.related_concepts)
       \/ StepEntry(t)
       \/ StepGraph(t)

SpecSemantic == Init /\ [][NextSemantic]_vars

\* the resources of one learner: concept links and a semantic store over the
\* same pair of concepts, one caller at a time
Learner == 1

CallLink(t) ==
    \/ \E c \in Concepts, rel \in RelatedLists :
          store_semantic(t, Learner, c, rel)
    \/ \E c \in Concepts, d \in ResourceTargets, rel \in ResourceRelationships :
          link_concepts(t, Learner, c, d, rel)

NextLink ==
    \E t \in SeqThreads : CallLink(t) \/ StepEntry(t) \/ StepGraph(t)

SpecLink == Init /\ [][NextLink]_vars

\* the entry log without retention, one caller at a time
NextSearch ==
    \E t \in SeqThreads : CallStore(t) \/ StepEntry(t) \/ StepGraph(t)

SpecSearch == Init /\ [][NextSearch]_vars

\* the memory of a learner whose earlier sessions searched videos: the
\* database holds the rows of n store_episodic calls of search_videos_tool,
\* the first half of them made one tick before the others
HistoryQueries == << "python", "loops" >>

HistoryTime(i, n) == IF 2 * i <= n THEN StartClock - 2 ELSE StartClock - 1

HistoryEntry(i, n) ==
    LET result == [query |-> HistoryQueries[(i % 2) + 1],
                   video_links |-> << "youtube.com/v" \o ToString(i) >>]
        entry == MemoryEntry(Learner, "Action: " \o "search_videos", "episodic",
                             result, HistoryTime(i, n))
    IN [entry EXCEPT !.embedding = encode(entry.content)]

History(n) == {EntryRow(i, HistoryEntry(i, n)) : i \in 1..n}

\* no history, and histories around the five actions that a context shows
HistoryLengths == {0, MaxHistory - 1, MaxHistory}

InitHistory ==
    /\ \E n \in HistoryLengths :
          /\ memory_entries = History(n)
          /\ entry_seq = n
    /\ knowledge_graph = {}
    /\ edge_seq = 0
    /\ kg_nodes = {}
    /\ kg_adj = << >>
    /\ now = StartClock
    /\ frame = [t \in Threads |-> IdleFrame]
    /\ outcome = [t \in Threads |-> "none"]

CallLearner(t) ==
    \/ \E u \in Users, a \in ActionLabels, res \in LinkResults :
          store_episodic(t, u, a, res)
    \/ \E c \in Concepts, d \in LinkTargets :
          link_concepts(t, Learner, c, d, "note_resource")

NextHistory ==
    \E t \in SeqThreads : CallLearner(t) \/ StepEntry(t) \/ StepGraph(t)

SpecHistory == InitHistory /\ [][NextHistory]_vars

\* the neighbours of one concept: labels and relationships with and without
\* the tokens that get_graph_context looks for, one caller at a time
ClassTargets == {"loops", "lecture notes", "youtube.com/day1", "video1"}
ClassRelationships == {"depends_on", "related", "video_resource", "note_resource"}

NextClassify ==
    \E t \in SeqThreads :
       \/ \E c \in Concepts, d \in ClassTargets, rel \in ClassRelationships :
             link_concepts(t, Learner, c, d, rel)
       \/ StepGraph(t)

SpecClassify == Init /\ [][NextClassify]_vars

\* learning paths of one learner: a day, a concept and the resources found
\* for it, one caller at a time
PathDays == {0, 1}
PathResources ==
    { << >>, << "youtube.com/v1", "drive/notes1" >>, << "youtube.com/day1" >>,
      << "slides.pdf" >> }

NextPath ==
    \E t \in SeqThreads :
       \/ \E d \in PathDays, c \in Concepts, rs \in PathResources :
             create_learning_path_graph(t, Learner, d, c, rs)
       \/ StepGraph(t)

SpecPath == Init /\ [][NextPath]_vars

(***************************************************************************)
(* Properties                                                              *)
(***************************************************************************)
AllIdle == \A t \in Threads : Idle(t)

\* datetime.fromisoformat
fromisoformat(ts) ==
    ts[1] * TicksPerDay + (IF Len(ts) > 1 THEN ts[2] ELSE 0)

\* caller t takes the encode step and the embedding is not computed
EncodeFails(t) ==
    /\ AtStep(t, "encode")
    /\ frame'[t] # frame[t]
    /\ frame'[t].entry.embedding = None

\* C1: when the embedding computation of a store call fails, the call ends
\* with the exception reaching the caller, and no row of memory_entries, no
\* row of knowledge_graph and no node or edge of the in-memory graph is
\* added; every row of memory_entries carries an embedding.
C1_EmbeddingFailureStoresNothing ==
    /\ [][\A t \in Threads :
             EncodeFails(t) =>
                /\ frame'[t] = IdleFrame
                /\ outcome'[t] = EncodeError
                /\ UNCHANGED << db_vars, graph_vars >>]_vars
    /\ [](\A row \in memory_entries : row.embedding # JsonNull)

\* a store call has failed in encode while the rows written before it are there
C1_Witness ==
    /\ outcome[1] = EncodeError
    /\ Idle(1)
    /\ memory_entries # {}
    /\ \A row \in memory_entries :
          json_loads_embedding(row.embedding) = encode(row.content)

\* what the graph reads return to a user
QueryConcepts == {"python", "loops"}
QueryTexts == {"Python loops"}
ConceptsOfQuery == [q \in QueryTexts |-> extract_concepts(q)]
GraphContext(user_id, q) == graph_context(user_id, ConceptsOfQuery[q])
GraphView(user_id) ==
    [related |-> [c \in QueryConcepts |-> get_related_concepts(user_id, c)],
     context |-> [q \in QueryTexts |-> GraphContext(user_id, q)]]

\* the in-memory graph holds the edge that a row of knowledge_graph records
Mirrored(row) ==
    \E i \in DOMAIN kg_adj :
       /\ kg_adj[i].u = NodeKey(row.user_id, row.source_node)
       /\ kg_adj[i].v = NodeKey(row.user_id, row.target_node)
       /\ kg_adj[i].relationship = row.relationship

\* C2: a restart of a process whose graph mirrors the table leaves the
\* in-memory graph holding every edge recorded in knowledge_graph, and the
\* graph reads of every user return what they returned before the restart.
C2_RestartRebuildsGraph ==
    [][(AllIdle /\ (\A row \in knowledge_graph : Mirrored(row)) /\ Restart) =>
          /\ \A row \in knowledge_graph' : Mirrored(row)'
          /\ \A u \in Users : GraphView(u)' = GraphView(u)]_vars

\* the neighbours that get_graph_context reports, each with its bucket
Seen(seq) == {seq[i] : i \in DOMAIN seq}
ContextItems(user_id, q) ==
    Bind(GraphContext(user_id, q), LAMBDA ctx :
       ({"note"} \X Seen(ctx.related_notes))
       \cup ({"video"} \X Seen(ctx.related_videos))
       \cup UNION { {<< "depends", c, n >> : n \in Seen(ctx.concept_dependencies[c])} :
                      c \in DOMAIN ctx.concept_dependencies })

\* C3: an edge insertion for a pair of nodes that is already connected
\* leaves the earlier edge and its relationship in the graph beside the new
\* one, and get_graph_context goes on reporting the neighbour under the
\* earlier relationship.
C3_InsertionKeepsEarlierEdges ==
    [][\A t \in Threads :
          add_edge_adj(t) =>
             /\ \A i \in DOMAIN kg_adj : \E j \in DOMAIN kg_adj' : kg_adj'[j] = kg_adj[i]
             /\ \A u \in Users, q \in QueryTexts :
                   frame[t].user_id = u => ContextItems(u, q) \subseteq ContextItems(u, q)']_vars

\* C5: an _add_to_graph call ends with both the row of knowledge_graph and
\* the in-memory edge, or with neither: a failed INSERT leaves the graph
\* untouched, a failed graph update leaves no row of this call.
C5_EdgeInsertionAllOrNothing ==
    [][\A t \in Threads :
          /\ (AtStep(t, "row") /\ frame'[t] = IdleFrame /\ outcome'[t] = StorageError)
                => UNCHANGED << knowledge_graph, kg_nodes, kg_adj >>
          /\ (AtStep(t, "nodes") /\ frame'[t] = IdleFrame /\ outcome'[t] = MirrorError)
                => ~ \E row \in knowledge_graph' : row.id = frame[t].rowid
          /\ (AtStep(t, "adj") /\ frame'[t] # frame[t] /\ outcome'[t] # "none")
                => \E row \in knowledge_graph' :
                      row.id = frame[t].rowid /\ Mirrored(row)']_vars

\* the user on whose behalf caller t takes a step
StepUser(t) == IF Idle(t) THEN frame'[t].user_id ELSE frame[t].user_id

\* C4: no edge of the in-memory graph connects nodes of two users, and a
\* step taken on behalf of one user changes nothing in what
\* get_related_concepts and get_graph_context return to another user.
C4_GraphIsolatedPerUser ==
    /\ [](\A i \in DOMAIN kg_adj :
             \E u \in Users :
                /\ kg_adj[i].u = NodeKey(u, CleanLabel(kg_adj[i].u))
                /\ kg_adj[i].v = NodeKey(u, CleanLabel(kg_adj[i].v)))
    /\ [][\A t \in Threads, u \in Users :
             (frame'[t] # frame[t] /\ StepUser(t) # u)
                => GraphView(u)' = GraphView(u)]_vars

\* both users have written edges from the same concept label, one of them
\* while the other was inside a call
C4_Witness ==
    /\ get_related_concepts(1, "python") # << >>
    /\ get_related_concepts(2, "python") # << >>
    /\ \E t \in Threads : ~Idle(t) /\ frame[t].user_id = 1
    /\ \E t \in Threads : outcome[t] = "returned"

\* C6: whenever a reader can run, the insertions it finds in the in-memory
\* graph are whole: every node has an edge that was inserted with it, and
\* every edge has both its endpoints.
C6_ReadersSeeWholeInsertions ==
    (\E t \in Threads : Idle(t)) =>
       /\ \A n \in kg_nodes :
             \E i \in DOMAIN kg_adj : kg_adj[i].u = n \/ kg_adj[i].v = n
       /\ \A i \in DOMAIN kg_adj : kg_adj[i].u \in kg_nodes /\ kg_adj[i].v \in kg_nodes

\* C7: the rows of one user lie in memory_entries in the order of their
\* timestamps.
C7_LogOrderIsTimestampOrder ==
    \A r1 \in memory_entries, r2 \in memory_entries :
       (r1.user_id = r2.user_id /\ r1.id < r2.id)
          => ~ TextLess(r2.timestamp, r1.timestamp)

\* caller t executes the DELETE of a sweep
Sweeps(t) == AtStep(t, "delete") /\ frame'[t] # frame[t]
SweepOf(t) == Head(frame[t].todo)

\* C8: a row of memory_entries is never changed, and it leaves the table only
\* in the DELETE of a sweep, as a conversation row older than the cutoff of
\* that sweep.
C8_EntriesImmutableUntilSwept ==
    [][/\ \A r \in memory_entries, q \in memory_entries' : r.id = q.id => r = q
       /\ \A r \in memory_entries :
             r \notin memory_entries' =>
                \E t \in Threads :
                   /\ Sweeps(t)
                   /\ r.memory_type = "conversation"
                   /\ fromisoformat(r.timestamp) < SweepOf(t).cutoff_date]_vars

\* a sweep has removed a row and left an episodic row
C8_Witness ==
    /\ Idle(1)
    /\ outcome[1] = "returned"
    /\ Cardinality(memory_entries) < entry_seq
    /\ \E r \in memory_entries : r.memory_type = "episodic"

\* C9: the DELETE of a sweep changes no episodic or semantic row, no row of
\* knowledge_graph and nothing in the in-memory graph; when it deletes rows,
\* recall_episodic, get_related_concepts and get_graph_context return what
\* they returned before it.
C9_SweepSparesOtherData ==
    [][\A t \in Threads :
          Sweeps(t) =>
             /\ {r \in memory_entries : r.memory_type # "conversation"}
                   = {r \in memory_entries' : r.memory_type # "conversation"}
             /\ UNCHANGED << knowledge_graph, kg_nodes, kg_adj >>
             /\ memory_entries' # memory_entries =>
                   \A u \in Users :
                      /\ recall_episodic(u, None)' = recall_episodic(u, None)
                      /\ recall_episodic(u, "search")' = recall_episodic(u, "search")
                      /\ GraphView(u)' = GraphView(u)]_vars

\* a sweep has run over an episodic row and a graph edge of its user that are
\* older than its cutoff
C9_Witness ==
    /\ Idle(1)
    /\ outcome[1] = "returned"
    /\ kg_adj # << >>
    /\ \E r \in memory_entries :
          /\ r.memory_type = "episodic"
          /\ fromisoformat(r.timestamp) + timedelta(1) < now
    /\ Cardinality(memory_entries) < entry_seq

\* C10: the DELETE of a sweep that succeeds removes the conversation rows of
\* its user that are older than its cutoff, all of them, and no other row.
C10_SweepRemovesExactlyTheAged ==
    [][\A t \in Threads :
          (Sweeps(t) /\ outcome'[t] = "returned") =>
             memory_entries' =
                {r \in memory_entries :
                    ~ (/\ r.user_id = SweepOf(t).user_id
                       /\ r.memory_type = "conversation"
                       /\ fromisoformat(r.timestamp) < SweepOf(t).cutoff_date)}]_vars

\* a sweep has removed one conversation row of a user and left a younger one
C10_Witness ==
    /\ Idle(1)
    /\ outcome[1] = "returned"
    /\ entry_seq = 2
    /\ \E r \in memory_entries :
          /\ r.id = 2
          /\ r.memory_type = "conversation"
          /\ \A q \in memory_entries : q = r
          /\ fromisoformat(r.timestamp) = now

\* the rows that a sweep for user_id with cutoff_date is to delete
Eligible(rows, user_id, cutoff_date) ==
    {r \in rows : /\ r.user_id = user_id
                  /\ r.memory_type = "conversation"
                  /\ fromisoformat(r.timestamp) < cutoff_date}

\* C11: after the DELETE of a sweep that succeeds no row is left that a sweep
\* with the same user and cutoff would delete, and the DELETE of a sweep that
\* finds no such row leaves memory_entries as it is: a second sweep with the
\* same cutoff and no write in between deletes nothing.
C11_SweepIsIdempotent ==
    [][\A t \in Threads :
          /\ (Sweeps(t) /\ outcome'[t] = "returned") =>
                Eligible(memory_entries', SweepOf(t).user_id, SweepOf(t).cutoff_date) = {}
          /\ (Sweeps(t) /\ Eligible(memory_entries, SweepOf(t).user_id,
                                    SweepOf(t).cutoff_date) = {}) =>
                memory_entries' = memory_entries]_vars

\* both conversation rows of a user were aged and a sweep has removed them
C11_Witness ==
    /\ Idle(1)
    /\ outcome[1] = "returned"
    /\ entry_seq = 2
    /\ memory_entries = {}

\* C12: the DELETE of a sweep that fails leaves memory_entries as it was, so
\* that the rows a sweep with the same arguments is to delete are all still
\* there.
C12_FailedSweepDeletesNothing ==
    [][\A t \in Threads :
          (Sweeps(t) /\ outcome'[t] # "returned") =>
             /\ outcome'[t] = StorageError
             /\ memory_entries' = memory_entries
             /\ Eligible(memory_entries', SweepOf(t).user_id, SweepOf(t).cutoff_date)
                   = Eligible(memory_entries, SweepOf(t).user_id, SweepOf(t).cutoff_date)]_vars

\* a sweep has failed over two aged conversation rows (no other call of the
\* single caller can fail once both rows are written)
C12_Witness ==
    /\ Idle(1)
    /\ outcome[1] = StorageError
    /\ entry_seq = MaxEntries
    /\ Cardinality(memory_entries) = MaxEntries
    /\ \A r \in memory_entries :
          r.memory_type = "conversation" /\ fromisoformat(r.timestamp) < now

\* caller t is inside a write method and its step ends the call with a
\* storage error
StorageFails(t) ==
    /\ frame[t].op \in {"store_episodic", "store_semantic", "link_concepts"}
    /\ frame'[t] = IdleFrame
    /\ outcome'[t] = StorageError

\* C13: when a step of store_episodic, store_semantic or link_concepts ends
\* the call with a storage error, nothing that the call wrote is left: not
\* the row of memory_entries that it inserted (with one caller, the row
\* inserted last) and not the row of knowledge_graph that an earlier
\* _add_to_graph of the call inserted.
C13_FailedWriteIsAbortedWhole ==
    [][\A t \in SeqThreads :
          StorageFails(t) =>
             /\ (AtStep(t, "row") /\ frame[t].entry # NoEntry) =>
                   ~ \E row \in memory_entries' :
                        row.id = entry_seq /\ row.content = frame[t].entry.content
             /\ (AtStep(t, "row") /\ frame[t].rowid # 0) =>
                   ~ \E row \in knowledge_graph' : row.id = frame[t].rowid]_vars

ConversationsOf(user_id) ==
    {r \in memory_entries : r.user_id = user_id /\ r.memory_type = "conversation"}

RecallLimits == 0..(MaxEntries + 1)

Min(a, b) == IF a < b THEN a ELSE b

\* res is the limit newest rows of rows, newest first
NewestFirst(res, rows, limit) ==
    /\ Len(res) = Min(limit, Cardinality(rows))
    /\ \A i \in 1..(Len(res) - 1) :
          fromisoformat(res[i].timestamp) >= fromisoformat(res[i + 1].timestamp)
    /\ \E taken \in SUBSET rows :
          /\ Cardinality(taken) = Len(res)
          /\ \A r \in taken, q \in rows \ taken :
                fromisoformat(r.timestamp) >= fromisoformat(q.timestamp)
          /\ \A r \in taken :
                Cardinality({i \in DOMAIN res :
                                /\ res[i].content = r.content
                                /\ res[i].timestamp = r.timestamp})
                   = Cardinality({q \in taken :
                                     q.content = r.content /\ q.timestamp = r.timestamp})

\* C14: when store_conversation has inserted its row, recall_conversation
\* with a limit that covers the user's conversation rows returns an entry
\* with the content and the metadata (user_message, ai_response, tools_used)
\* that the call was given; and whenever memory_entries changes, for every
\* limit the result is the min(limit, count) newest conversation rows of the
\* user, newest first, each with the metadata decoded from its row.
C14_RecallReturnsWhatWasStored ==
    /\ [][\A t \in Threads :
             (AtStep(t, "insert") /\ frame[t].op = "store_conversation"
                /\ memory_entries' # memory_entries) =>
                \A u \in Users, n \in RecallLimits :
                   (frame[t].user_id = u /\ n >= Cardinality(ConversationsOf(u)')) =>
                      \E res \in {recall_conversation(u, n)'} :
                         \E i \in DOMAIN res :
                            /\ res[i].content = frame[t].entry.content
                            /\ res[i].metadata = frame[t].entry.metadata
                            /\ fromisoformat(res[i].timestamp) = frame[t].entry.timestamp]_vars
    /\ [][memory_entries' # memory_entries =>
             \A u \in Users, n \in RecallLimits :
                \E res \in {recall_conversation(u, n)'}, rows \in {ConversationsOf(u)'} :
                   NewestFirst(res, rows, n)]_vars

\* two conversation rows of one user with different timestamps, the older one
\* holding the texts that need escaping
C14_Witness ==
    /\ Idle(1)
    /\ outcome[1] = "returned"
    /\ Len(recall_conversation(1, 2)) = 2
    /\ recall_conversation(1, 2)[2].metadata.tools_used # << >>
    /\ TextLess(recall_conversation(1, 2)[2].timestamp, recall_conversation(1, 2)[1].timestamp)

\* the labels of the nodes, and the pairs (a, b) with b among the related
\* concepts of a
Labels == {"python", "loops", "recursion", "functions", "youtube.com/day1"}
RelatedPairs(user_id) ==
    {p \in Labels \X Labels : p[2] \in Seen(get_related_concepts(user_id, p[1]))}

\* C15: a step of store_semantic(u, c, related) adds to the reads of
\* get_related_concepts only pairs c -> r with r among related, never a pair
\* r -> c, and adds to knowledge_graph only rows c -> r; when the call
\* returns, get_related_concepts(u, c) contains every r of related.
C15_SemanticEdgesPointOneWay ==
    [][\A t \in Threads :
          (frame[t].op = "store_semantic" /\ frame'[t] # frame[t]) =>
             \E u \in {frame[t].user_id}, c \in {frame[t].entry.content},
                related \in {Seen(frame[t].entry.metadata.related_concepts)} :
                /\ \A v \in Users :
                      \A p \in RelatedPairs(v)' \ RelatedPairs(v) :
                         v = u /\ p[1] = c /\ p[2] \in related
                /\ \A row \in knowledge_graph' \ knowledge_graph :
                      row.user_id = u /\ row.source_node = c /\ row.target_node \in related
                /\ outcome'[t] = "returned" =>
                      related \subseteq Seen(get_related_concepts(u, c)')]_vars

\* store_semantic(1, "recursion", ["loops", "functions"]) has returned and
\* nothing has put an edge back to recursion
C15_Witness ==
    /\ Idle(1)
    /\ outcome[1] = "returned"
    /\ get_related_concepts(1, "recursion") = << "loops", "functions" >>
    /\ get_related_concepts(1, "loops") = << >>
    /\ get_related_concepts(1, "functions") = << >>

\* the edge of the in-memory graph from a to b of a user, with its label
HasEdge(user_id, a, b, relationship) ==
    \E i \in DOMAIN kg_adj :
       /\ kg_adj[i].u = NodeKey(user_id, a)
       /\ kg_adj[i].v = NodeKey(user_id, b)
       /\ kg_adj[i].relationship = relationship

HasRow(user_id, a, b, relationship) ==
    \E row \in knowledge_graph :
       /\ row.user_id = user_id
       /\ row.source_node = a
       /\ row.target_node = b
       /\ row.relationship = relationship

\* C16: when link_concepts(u, A, B, rel) returns, knowledge_graph and the
\* in-memory graph both hold the edge A -> B labelled rel and the edge
\* B -> A labelled "reverse_" + rel, get_related_concepts(u, A) contains B
\* and get_related_concepts(u, B) contains A.
C16_LinkCreatesBothEdges ==
    [][\A t \in Threads :
          (frame[t].op = "link_concepts" /\ frame'[t] = IdleFrame
             /\ outcome'[t] = "returned") =>
             \E u \in {frame[t].user_id},
                A \in {Head(frame[t].todo).target}, B \in {Head(frame[t].todo).source},
                reverse_rel \in {Head(frame[t].todo).relationship} :
                \E rel \in {SubSeq(reverse_rel, Len("reverse_") + 1, Len(reverse_rel))} :
                   /\ HasRow(u, A, B, rel)'
                   /\ HasRow(u, B, A, reverse_rel)'
                   /\ HasEdge(u, A, B, rel)'
                   /\ HasEdge(u, B, A, reverse_rel)'
                   /\ B \in Seen(get_related_concepts(u, A)')
                   /\ A \in Seen(get_related_concepts(u, B)')]_vars

\* the neighbours of the concepts of a query, each with the label of its edge
QueryEdges(user_id, q) ==
    {e \in Seen(kg_adj) :
        \E i \in DOMAIN ConceptsOfQuery[q] :
           e.u = NodeKey(user_id, ConceptsOfQuery[q][i])}

\* C17: get_graph_context lists in related_videos every neighbour of a
\* concept of the query whose edge is labelled "video_resource".
C17_VideoResourceIsAVideo ==
    \A u \in Users, q \in QueryTexts :
       \A e \in QueryEdges(u, q) :
          e.relationship = "video_resource" =>
             CleanLabel(e.v) \in Seen(GraphContext(u, q).related_videos)

\* C18: get_graph_context lists under concept_dependencies[c] every neighbour
\* of a concept c of the query whose edge has a label containing "depends".
C18_DependsIsADependency ==
    \A u \in Users, q \in QueryTexts :
       \A e \in QueryEdges(u, q) :
          Contains(e.relationship, "depends") =>
             \E c \in DOMAIN GraphContext(u, q).concept_dependencies :
                /\ e.u = NodeKey(u, c)
                /\ CleanLabel(e.v) \in Seen(GraphContext(u, q).concept_dependencies[c])

\* no call is in progress and every insertion that knowledge_graph records
\* has reached the in-memory graph
InsertionsComplete ==
    /\ AllIdle
    /\ \A row \in knowledge_graph :
          \E i \in DOMAIN kg_adj :
             /\ kg_adj[i].u = NodeKey(row.user_id, row.source_node)
             /\ kg_adj[i].v = NodeKey(row.user_id, row.target_node)

\* C19: once link_concepts has inserted an edge labelled "note_resource"
\* from a concept of the query (with its reverse edge), get_graph_context
\* lists the neighbour in related_notes, whatever was inserted afterwards.
C19_NoteResourceStaysANote ==
    InsertionsComplete =>
       \A u \in Users, q \in QueryTexts :
          \A row \in knowledge_graph :
             (/\ row.user_id = u
              /\ row.relationship = "note_resource"
              /\ \E i \in DOMAIN ConceptsOfQuery[q] : ConceptsOfQuery[q][i] = row.source_node
              /\ HasRow(u, row.target_node, row.source_node, "reverse_note_resource"))
                => row.target_node \in Seen(GraphContext(u, q).related_notes)

\* queries whose embeddings lie above, at and below the threshold from the
\* embeddings of the stored contents
SearchQueries == {"loops", "for", "recursion in python"}
SearchLimits == 0..(MaxEntries + 1)

\* the similarity of a row to a query, from the texts
SimilarityOf(row, query) == Cosine(encode(query), encode(row.content))

AboveHalf(similarity) ==
    similarity.dot > 0 /\ 4 * similarity.dot * similarity.dot > similarity.scale

Relevant(user_id, query) ==
    {r \in memory_entries :
        /\ r.user_id = user_id
        /\ SimilarityOf(r, query).dot > 0
        /\ 4 * SimilarityOf(r, query).dot * SimilarityOf(r, query).dot
              > SimilarityOf(r, query).scale}

\* res is the limit most similar rows of rows, most similar first
MostSimilarFirst(res, rows, query, limit) ==
    /\ Len(res) = Min(limit, Cardinality(rows))
    /\ \A i \in DOMAIN res :
          /\ res[i].similarity.dot > 0
          /\ 4 * res[i].similarity.dot * res[i].similarity.dot > res[i].similarity.scale
    /\ \A i \in 1..(Len(res) - 1) :
          ~ CosineLess(res[i].similarity, res[i + 1].similarity)
    /\ \E taken \in SUBSET rows :
          /\ Cardinality(taken) = Len(res)
          /\ \A r \in taken, q \in rows \ taken :
                ~ CosineLess(SimilarityOf(r, query), SimilarityOf(q, query))
          /\ \A r \in taken :
                Cardinality({i \in DOMAIN res :
                                /\ res[i].content = r.content
                                /\ res[i].timestamp = r.timestamp
                                /\ res[i].similarity = SimilarityOf(r, query)})
                   = Cardinality({q \in taken :
                                     q.content = r.content /\ q.timestamp = r.timestamp})

\* C20: whenever memory_entries changes, semantic_search(u, q, k) returns
\* only entries of u whose similarity to q is above one half, most similar
\* first, and they are the first k of all such entries: min(k, count) items,
\* none when no entry qualifies.
C20_SearchKeepsTheMostSimilar ==
    [][memory_entries' # memory_entries =>
          \A u \in Users, q \in SearchQueries, k \in SearchLimits :
             \E res \in {semantic_search(u, q, k)'}, rows \in {Relevant(u, q)'} :
                MostSimilarFirst(res, rows, q, k)]_vars

\* a user has an entry at the threshold, which a search leaves out, and two
\* entries above it, which another search returns in the order of similarity
\* and not of insertion
C20_Witness ==
    /\ Idle(1)
    /\ outcome[1] = "returned"
    /\ Cardinality({r \in memory_entries : r.user_id = 1}) = 2
    /\ Len(semantic_search(1, "loops", 5)) = 1
    /\ Len(semantic_search(1, "for", 5)) = 2
    /\ semantic_search(1, "for", 5)[1].content = "Action: search_videos"
    /\ \E r \in memory_entries : r.id = 1 /\ r.memory_type = "conversation"
    /\ semantic_search(1, "recursion in python", 5) = << >>

\* similarity >= 0.99
AtLeast99(similarity) ==
    /\ similarity.dot > 0
    /\ 10000 * similarity.dot * similarity.dot >= 9801 * similarity.scale

\* the dictionary that a search for query returns for a row
EntryOf(row, query) ==
    [content |-> row.content, metadata |-> json_loads(row.metadata),
     timestamp |-> row.timestamp, similarity |-> SimilarityOf(row, query)]

\* the limits of the searches: one result, and room for every entry
RankLimits == {1, MaxEntries + 1}

\* res is the result of a search for the content of row, and row is first
RanksFirst(res, row) ==
    /\ Len(res) >= 1
    /\ res[1] = EntryOf(row, row.content)
    /\ AtLeast99(res[1].similarity)

\* res is the result of a search for the content of row, and an entry of
\* rows that is as similar to that content as row is first
RanksAnEqualFirst(res, row, rows) ==
    /\ Len(res) >= 1
    /\ AtLeast99(res[1].similarity)
    /\ \E r \in rows :
          /\ r.user_id = row.user_id
          /\ res[1] = EntryOf(r, row.content)
          /\ ~ CosineLess(SimilarityOf(r, row.content), SimilarityOf(row, row.content))

\* C21 as stated: whenever memory_entries changes, for every stored entry of
\* a user u with content t and every k >= 1, semantic_search(u, t, k) has
\* that entry in first position, with a similarity of at least 0.99.
C21_StoredTextRanksItsEntryFirst ==
    [][memory_entries' # memory_entries =>
          \E rows \in {memory_entries'} :
             \A row \in rows, k \in RankLimits :
                \E res \in {semantic_search(row.user_id, row.content, k)'} :
                   RanksFirst(res, row)]_vars

\* C21 amended: whenever memory_entries changes, for every stored entry of a
\* user u with content t and every k >= 1, semantic_search(u, t, k) is not
\* empty, its first result has a similarity of at least 0.99 and is an entry
\* of u that is as similar to t as the stored entry is: the stored entry
\* itself when no other entry of u is as similar.
C21_StoredTextRanksAnEqualFirst ==
    [][memory_entries' # memory_entries =>
          \E rows \in {memory_entries'} :
             \A row \in rows, k \in RankLimits :
                \E res \in {semantic_search(row.user_id, row.content, k)'} :
                   RanksAnEqualFirst(res, row, rows)]_vars

\* a user has two entries of different content; a search for the content of
\* the second returns it first and alone
C21_Witness ==
    /\ AllIdle
    /\ \E a, b \in memory_entries :
          /\ a.user_id = b.user_id
          /\ a.id < b.id
          /\ a.content # b.content
          /\ semantic_search(b.user_id, b.content, 2) = << EntryOf(b, b.content) >>

\* filters of recall_episodic: none, a part of an action label, one in
\* another case, one with an underscore where the content has another
\* character, and one that no content holds
EpisodicFilters == {None, "search", "VIDEOS", "action_", "playlist"}

EpisodicOf(user_id) ==
    {r \in memory_entries : r.user_id = user_id /\ r.memory_type = "episodic"}

\* the episodic rows of a user whose content contains the filter
Containing(user_id, f) ==
    {r \in EpisodicOf(user_id) : f # None => Contains(r.content, f)}

\* C22: recall_episodic(u, f) returns, newest first, only episodic entries of
\* u whose content contains the substring f, the 20 most recent of them when
\* there are more; without a filter, the 20 most recent episodic entries of u.
C22_EpisodicRecallFiltersBySubstring ==
    \A u \in Users, f \in EpisodicFilters :
       \E res \in {recall_episodic(u, f)}, rows \in {Containing(u, f)} :
          NewestFirst(res, rows, EpisodicLimit)

\* every item of res is an entry of the user: the items that show one
\* content, metadata and timestamp are no more than the user's rows that
\* hold them
OwnEntries(res, user_id, rows) ==
    \A i \in DOMAIN res :
       Cardinality({j \in DOMAIN res :
                       /\ res[j].content = res[i].content
                       /\ res[j].metadata = res[i].metadata
                       /\ res[j].timestamp = res[i].timestamp})
          <= Cardinality({r \in rows :
                             /\ r.user_id = user_id
                             /\ r.content = res[i].content
                             /\ json_loads(r.metadata) = res[i].metadata
                             /\ r.timestamp = res[i].timestamp})

\* C23: whenever memory_entries changes, whatever users wrote it, the
\* results of recall_conversation(u, ..), recall_episodic(u, ..) and
\* semantic_search(u, ..) and the semantic_matches and recent_actions of
\* get_contextual_memory(u, ..) hold only entries stored for u.
C23_ReadsAreScopedToTheUser ==
    [][memory_entries' # memory_entries =>
          \E rows \in {memory_entries'} :
             \A u \in Users :
                /\ \A n \in RecallLimits :
                      \E res \in {recall_conversation(u, n)'} : OwnEntries(res, u, rows)
                /\ \A f \in EpisodicFilters :
                      \E res \in {recall_episodic(u, f)'} : OwnEntries(res, u, rows)
                /\ \A q \in SearchQueries, k \in RankLimits :
                      \E res \in {semantic_search(u, q, k)'} : OwnEntries(res, u, rows)
                /\ \A q \in SearchQueries :
                      \E bundle \in {get_contextual_memory(u, q)'} :
                         /\ OwnEntries(bundle.semantic_matches, u, rows)
                         /\ OwnEntries(bundle.recent_actions, u, rows)]_vars

\* each of two users has one entry; a search that both entries match returns
\* to each user the own entry alone, as does the recall of the actions
C23_Witness ==
    /\ AllIdle
    /\ \E a, b \in memory_entries :
          /\ a.user_id = 1 /\ b.user_id = 2
          /\ a.memory_type = "conversation" /\ b.memory_type = "episodic"
          /\ memory_entries = {a, b}
          /\ semantic_search(1, "for", 5) = << EntryOf(a, "for") >>
          /\ semantic_search(2, "for", 5) = << EntryOf(b, "for") >>
          /\ get_contextual_memory(1, "for").recent_actions = << >>
          /\ Len(get_contextual_memory(2, "for").recent_actions) = 1
          /\ Len(recall_conversation(1, 1)) = 1
          /\ recall_conversation(2, 1) = << >>

\* queries of get_contextual_memory: one that names no concept, one that
\* names two and is similar to the stored actions
ContextQueries == {"for", "python for loops"}

\* the edges of the in-memory graph that leave a concept of the query and
\* that the first rule of get_graph_context takes for notes
NoteEdges(user_id, q) ==
    {e \in Seen(kg_adj) :
        /\ \E c \in Seen(extract_concepts(q)) : e.u = NodeKey(user_id, c)
        /\ Contains(e.relationship, "note") \/ Contains(Lower(CleanLabel(e.v)), "day")}

\* the two counts that a summary states, and whether it has the form
\* "Found <n> semantic matches, <m> related notes"
SummaryCounts(summary) ==
    Bind(DigitsFrom(summary, 7, 0), LAMBDA a :
    Bind(DigitsFrom(summary, a.next + 19, 0), LAMBDA b :
       [matches |-> a.value,
        notes |-> b.value,
        formed |-> /\ SubSeq(summary, 1, 6) = "Found "
                   /\ a.next > 7
                   /\ SubSeq(summary, a.next, a.next + 18) = " semantic matches, "
                   /\ b.next > a.next + 19
                   /\ SubSeq(summary, b.next, Len(summary)) = " related notes"]))

\* the dictionaries of the rows, and the same with the similarity of each
\* row to the query q
Held(rows) == Limit(Recalled(FetchAll(rows)), Cardinality(rows))

HeldScored(rows, q) ==
    Bind(Held(rows), LAMBDA h :
       SubSeq([i \in DOMAIN h |->
                  [content |-> h[i].content, metadata |-> h[i].metadata,
                   timestamp |-> h[i].timestamp,
                   similarity |-> Cosine(encode(q), encode(h[i].content))]],
              1, Len(h)))

\* every item of res is one of held, and is in res no more often than in held
DrawnFrom(res, held) ==
    \A i \in DOMAIN res :
       Cardinality({k \in DOMAIN res : res[k] = res[i]})
          <= Cardinality({j \in DOMAIN held : held[j] = res[i]})

\* the items of held that are not all in res
LeftOut(res, held) ==
    {j \in DOMAIN held :
        Cardinality({k \in DOMAIN res : res[k] = held[j]})
           < Cardinality({k \in DOMAIN held : held[k] = held[j]})}

\* res holds the limit newest items of held (all of them if they are fewer),
\* newest first
NewestOf(res, held, limit) ==
    /\ Len(res) = Min(limit, Len(held))
    /\ \A i \in 1..(Len(res) - 1) :
          fromisoformat(res[i].timestamp) >= fromisoformat(res[i + 1].timestamp)
    /\ DrawnFrom(res, held)
    /\ \A j \in LeftOut(res, held), i \in DOMAIN res :
          fromisoformat(res[i].timestamp) >= fromisoformat(held[j].timestamp)

\* res holds the limit most similar items of held, most similar first
MostSimilarOf(res, held, limit) ==
    /\ Len(res) = Min(limit, Len(held))
    /\ \A i \in 1..(Len(res) - 1) : ~ CosineLess(res[i].similarity, res[i + 1].similarity)
    /\ DrawnFrom(res, held)
    /\ \A j \in LeftOut(res, held), i \in DOMAIN res :
          ~ CosineLess(res[i].similarity, held[j].similarity)

\* bundle is the contextual memory of the user for the query q over the rows
\* and the in-memory edges notes
ContextOf(bundle, user_id, q, rows, notes) ==
    /\ \E held \in {HeldScored({r \in rows : /\ r.user_id = user_id
                                            /\ AboveHalf(SimilarityOf(r, q))}, q)} :
          MostSimilarOf(bundle.semantic_matches, held, 5)
    /\ \E held \in {Held({r \in rows : /\ r.user_id = user_id
                                      /\ r.memory_type = "episodic"})} :
          NewestOf(bundle.recent_actions, held, 5)
    /\ DOMAIN bundle.graph_context =
          {"related_notes", "related_videos", "concept_dependencies", "learning_path"}
    /\ Len(bundle.graph_context.related_notes) = Cardinality(notes)
    /\ Seen(bundle.graph_context.related_notes) = {CleanLabel(e.v) : e \in notes}
    /\ SummaryCounts(bundle.summary) =
          [matches |-> Len(bundle.semantic_matches),
           notes |-> Len(bundle.graph_context.related_notes),
           formed |-> TRUE]

\* C24: whenever the entries or the in-memory graph change,
\* get_contextual_memory(u, q) returns a bundle whose semantic_matches are
\* the 5 entries of u most similar to q among those above the threshold
\* (fewer if fewer exist), most similar first; whose graph_context has the
\* four keys and lists under related_notes the note neighbours of the
\* concepts of q; whose recent_actions are the 5 most recent episodic entries
\* of u (fewer if fewer exist), newest first; and whose summary states the
\* number of semantic_matches and the number of related_notes of that bundle.
\* Each part is determined by the entries and the graph alone.
C24_ContextBundlesThreeReads ==
    [][(memory_entries' # memory_entries \/ kg_adj' # kg_adj) =>
          \E rows \in {memory_entries'} :
             \A u \in Users, q \in ContextQueries :
                \E bundle \in {get_contextual_memory(u, q)'},
                   notes \in {NoteEdges(u, q)'} :
                   ContextOf(bundle, u, q, rows, notes)]_vars

\* the learner has more than five actions on record, all similar to the
\* query, and two note neighbours: the bundle shows five matches and five
\* actions, the newest action first, and counts them in its summary
C24_Witness ==
    /\ AllIdle
    /\ outcome[1] = "returned"
    /\ Cardinality(EpisodicOf(Learner)) > 5
    /\ \E bundle \in {get_contextual_memory(Learner, "python for loops")} :
          /\ Len(bundle.semantic_matches) = 5
          /\ Len(bundle.recent_actions) = 5
          /\ fromisoformat(bundle.recent_actions[1].timestamp) = StartClock
          /\ bundle.graph_context.related_notes = << "loops", "python" >>
          /\ bundle.summary = "Found 5 semantic matches, 2 related notes"

\* concepts and queries of the graph reads: "recursion" is never linked
AskedConcepts == {"python", "loops", "recursion", "search_videos"}
AskedQueries == {"Python loops", "recursion in python"}

\* the concept is not a node of the user's graph: the DiGraph does not hold
\* its key, or no edge of the user was ever recorded for it
NotANode(user_id, concept) ==
    \/ NodeKey(user_id, concept) \notin kg_nodes
    \/ \A row \in knowledge_graph :
          row.user_id = user_id =>
             row.source_node # concept /\ row.target_node # concept

\* the neighbour is listed for a concept of the query that the user has an
\* edge from
Contributed(user_id, concepts, neighbor) ==
    \E i \in DOMAIN concepts :
       /\ ~ NotANode(user_id, concepts[i])
       /\ \E row \in knowledge_graph :
             /\ row.user_id = user_id
             /\ row.source_node = concepts[i]
             /\ row.target_node = neighbor

\* C25: whenever the graph changes, get_related_concepts(u, c) is the empty
\* list for a concept c that is not a node of the graph of u, and every
\* neighbour that get_graph_context(u, q) lists under related_notes,
\* related_videos or concept_dependencies comes from a concept of q that is
\* a node: a concept without a node contributes nothing, and a query none of
\* whose concepts is a node gets the three empty.
C25_MissingNodeGivesEmptyResult ==
    [][(kg_adj' # kg_adj \/ kg_nodes' # kg_nodes \/ knowledge_graph' # knowledge_graph) =>
          \A u \in Users :
             /\ \A c \in AskedConcepts :
                   NotANode(u, c)' => get_related_concepts(u, c)' = << >>
             /\ \A q \in AskedQueries :
                   \E context \in {get_graph_context(u, q)'},
                      concepts \in {extract_concepts(q)} :
                      /\ \A x \in Seen(context.related_notes) \cup Seen(context.related_videos) :
                            Contributed(u, concepts, x)'
                      /\ \A c \in DOMAIN context.concept_dependencies :
                            /\ \E i \in DOMAIN concepts : concepts[i] = c
                            /\ ~ NotANode(u, c)'
                            /\ \A x \in Seen(context.concept_dependencies[c]) :
                                  Contributed(u, << c >>, x)'
                      /\ (\A i \in DOMAIN concepts : NotANode(u, concepts[i])') =>
                            /\ context.related_notes = << >>
                            /\ context.related_videos = << >>
                            /\ DOMAIN context.concept_dependencies = {}]_vars

\* the learner has linked python and loops, the other user has only searched
\* videos: the other user gets empty results for python, and the learner
\* gets nothing for recursion while python contributes its neighbour
C25_Witness ==
    /\ AllIdle
    /\ get_related_concepts(1, "python") = << "loops" >>
    /\ get_related_concepts(1, "recursion") = << >>
    /\ get_related_concepts(2, "python") = << >>
    /\ get_related_concepts(2, "search_videos") = << "youtube.com/v1" >>
    /\ NodeKey(2, "python") \notin kg_nodes
    /\ get_graph_context(1, "recursion in python").related_notes = << "loops" >>
    /\ get_graph_context(2, "recursion in python").related_notes = << >>

\* the in-memory edges that leave the i-th concept of the query
EdgesOf(user_id, concepts, i) ==
    {e \in Seen(kg_adj) : e.u = NodeKey(user_id, concepts[i])}

\* the number of times that a label is in a list
Times(list, x) == Cardinality({i \in DOMAIN list : list[i] = x})

\* the lists of the context hold the neighbours of the concepts of the query
\* as the rule Rule(relationship, label) says: a neighbour is in a list once
\* for every edge that the rule sends there, and nowhere else
Classified(context, user_id, concepts, Rule(_, _)) ==
    \A x \in {CleanLabel(n) : n \in kg_nodes} :
       /\ Times(context.related_notes, x) =
             Cardinality({i \in DOMAIN concepts :
                 \E e \in EdgesOf(user_id, concepts, i) :
                    CleanLabel(e.v) = x /\ Rule(e.relationship, x) = "related_notes"})
       /\ Times(context.related_videos, x) =
             Cardinality({i \in DOMAIN concepts :
                 \E e \in EdgesOf(user_id, concepts, i) :
                    CleanLabel(e.v) = x /\ Rule(e.relationship, x) = "related_videos"})
       /\ \A i \in DOMAIN concepts :
             LET listed == IF concepts[i] \in DOMAIN context.concept_dependencies
                           THEN context.concept_dependencies[concepts[i]] ELSE << >>
             IN Times(listed, x) =
                   Cardinality({e \in EdgesOf(user_id, concepts, i) :
                       /\ CleanLabel(e.v) = x
                       /\ Rule(e.relationship, x) = "concept_dependencies"})

\* the rules as C26 states them: a token counts in the relationship and in
\* the label alike
RuleOfEitherField(relationship, label) ==
    LET fields == << relationship, Lower(label) >>
        Has(token) == \E k \in 1..2 : Contains(fields[k], token)
    IN IF Has("note") \/ Has("day") THEN "related_notes"
       ELSE IF Has("video") \/ Has("youtube") THEN "related_videos"
       ELSE IF Contains(relationship, "depends") THEN "concept_dependencies"
       ELSE "none"

\* the rules with each token in its field: "note", "video" and "depends" in
\* the relationship, "day" and "youtube" in the label in lower case
RuleOfOwnField(relationship, label) ==
    LET lowered == Lower(label)
    IN IF Contains(relationship, "note") \/ Contains(lowered, "day") THEN "related_notes"
       ELSE IF Contains(relationship, "video") \/ Contains(lowered, "youtube")
       THEN "related_videos"
       ELSE IF Contains(relationship, "depends") THEN "concept_dependencies"
       ELSE "none"

ClassQueries == {"Python loops"}

\* C26 as stated: whenever the in-memory graph changes, get_graph_context
\* lists each neighbour of a concept of the query by the first matching rule
\* of three: (1) relationship or label contains a note token or a day token:
\* related_notes; (2) otherwise relationship or label contains a video token
\* or a youtube token: related_videos; (3) otherwise the relationship
\* contains a dependency token: concept_dependencies[concept]; a neighbour
\* that matches none is in no list.
C26_FirstRuleOfEitherField ==
    [][kg_adj' # kg_adj =>
          \A q \in ClassQueries :
             \E context \in {get_graph_context(Learner, q)'},
                concepts \in {extract_concepts(q)} :
                Classified(context, Learner, concepts, RuleOfEitherField)']_vars

\* C26 amended: the same with each token looked for in one field only:
\* (1) the relationship contains "note" or the label, in lower case, contains
\* "day": related_notes; (2) otherwise the relationship contains "video" or
\* the label, in lower case, contains "youtube": related_videos;
\* (3) otherwise the relationship contains "depends":
\* concept_dependencies[concept]; a neighbour that matches none is in no list.
C26_FirstRuleOfOwnField ==
    [][kg_adj' # kg_adj =>
          \A q \in ClassQueries :
             \E context \in {get_graph_context(Learner, q)'},
                concepts \in {extract_concepts(q)} :
                Classified(context, Learner, concepts, RuleOfOwnField)']_vars

\* python has a video resource whose label holds "day", which the first rule
\* takes for a note, and loops depends on python by the reverse edge
C26_Witness ==
    /\ AllIdle
    /\ \E context \in {get_graph_context(Learner, "Python loops")} :
          /\ context.related_notes = << "youtube.com/day1" >>
          /\ context.related_videos = << >>
          /\ "loops" \in DOMAIN context.concept_dependencies
          /\ context.concept_dependencies["loops"] = << "python" >>

\* the durable table records the in-memory edge e: a row holds its user, its
\* two labels and its relationship
Recorded(e) ==
    \E row \in knowledge_graph :
       /\ NodeKey(row.user_id, row.source_node) = e.u
       /\ NodeKey(row.user_id, row.target_node) = e.v
       /\ row.relationship = e.relationship

\* C27: in every state of one process lifetime, each edge of the in-memory
\* graph (user, source, target, relationship) has a row with the same four
\* values in the durable knowledge_graph table, and each of its nodes is an
\* endpoint of such a row.
C27_MirrorNeverAhead ==
    /\ \A e \in Seen(kg_adj) : Recorded(e)
    /\ \A n \in kg_nodes :
          \E row \in knowledge_graph :
             n \in {NodeKey(row.user_id, row.source_node),
                    NodeKey(row.user_id, row.target_node)}

\* a caller is between the commit of a row and the update of the mirror
\* while the mirror already holds another edge: the table is ahead
C27_Witness ==
    /\ kg_adj # << >>
    /\ \E t \in Threads : AtStep(t, "nodes")
    /\ \E row \in knowledge_graph : ~ Mirrored(row)

\* the label that create_learning_path_graph is to give the edge to a
\* resource, "none" for a resource that gets no edge
ResourceLabel(resource) ==
    IF Contains(resource, "youtube") \/ Contains(resource, "video") THEN "video_resource"
    ELSE IF Contains(resource, "notes") \/ Contains(resource, "drive") THEN "note_resource"
    ELSE "none"

PathQueries == {"python day 0 and day 1"}

\* C28: when create_learning_path_graph calls have returned and the mirror
\* holds every recorded edge, each recorded edge from day_<day> is to the
\* concept and labelled "teaches", each recorded edge from the concept to a
\* resource carries the label that the text of the resource asks for and no
\* resource without a label has an edge, and get_graph_context for a query
\* naming the concept lists each video resource in related_videos and each
\* note resource in related_notes.
C28_PathResourcesAreListed ==
    (AllIdle /\ outcome[1] = "returned" /\ \A row \in knowledge_graph : Mirrored(row)) =>
       /\ \A row \in knowledge_graph :
             /\ row.source_node \in {"day_" \o ToString(d) : d \in PathDays} =>
                   row.target_node \in Concepts /\ row.relationship = "teaches"
             /\ (row.source_node \in Concepts /\ row.relationship # "reverse_teaches") =>
                   row.relationship = ResourceLabel(row.target_node)
       /\ \A q \in PathQueries :
             \E context \in {get_graph_context(Learner, q)} :
                \A row \in knowledge_graph :
                   row.source_node \in Concepts =>
                      /\ row.relationship = "video_resource" =>
                            row.target_node \in Seen(context.related_videos)
                      /\ row.relationship = "note_resource" =>
                            row.target_node \in Seen(context.related_notes)

\* the episodic rows of a user whose metadata has the key
Keyed(user_id, key) ==
    {r \in EpisodicOf(user_id) : key \in DOMAIN json_loads(r.metadata)}

\* C29: get_user_playlists(u) is the set of the playlist_name values of all
\* of u's episodic entries whose metadata has that key, each name once.
C29_PlaylistsOfAllKeyedEntries ==
    \A u \in Users :
       get_user_playlists(u)
          = {json_loads(r.metadata)["playlist_name"] : r \in Keyed(u, "playlist_name")}

\* C30: get_last_youtube_link(u) is the youtube_link of a most recent
\* episodic entry of u whose metadata has the key youtube_link, whatever the
\* action of the entry, and None only when u has no such entry.
C30_LastLinkOfAnyAction ==
    \A u \in Users :
       \E link \in {get_last_youtube_link(u)}, keyed \in {Keyed(u, "youtube_link")} :
          IF keyed = {} THEN link = None
          ELSE \E r \in keyed :
                  /\ \A other \in keyed : ~ TextLess(r.timestamp, other.timestamp)
                  /\ link = json_loads(r.metadata)["youtube_link"]

====
